---- MODULE Spec2Model ----
(***************************************************************************)
(* Hydra (src/hydra.py): the lock store shared by concurrently running     *)
(* hydra processes.  The table `locks` of the SQLite database is the       *)
(* committed state every process observes; a process that has executed     *)
(* BEGIN IMMEDIATE holds the database write lock and works on its own      *)
(* uncommitted copy until COMMIT or ROLLBACK.  The tmux server is the      *)
(* liveness oracle of the sessions named by the rows' tmux_session tag.    *)
(***************************************************************************)
EXTENDS Integers, FiniteSets, Sequences, TLC

\* ------------------------------------------------------------- universe
\* Model bounds.
MaxTime  == 1          \* the clock (_now_ts) runs from 0 to MaxTime

Procs    == {"p1", "p2"}   \* concurrently running hydra processes
NoProc   == "none"
Agents   == {"a1", "a2"}
Tasks    == {"t1", "t2"}
\* (agent, task) pairs: two share the agent, two share the task.
Owners   == {<<"a1", "t1">>, <<"a1", "t2">>, <<"a2", "t1">>}
\* the two pairs of one agent working on two tasks
OwnersOfA1 == {<<"a1", "t1">>, <<"a1", "t2">>}
Sessions == {"s1", "s2"}
NULL     == "NULL"     \* SQL NULL in the tmux_session column
EMPTY    == ""         \* the empty session tag the pre-commit hook writes
SmallFiles == {1, 2}   \* the file paths the everyday requests range over
MaxAge == 2            \* ages and waiting times are cut off here (in polls)
MaxCommits == 2        \* commits a run makes on the snapshot branch
MaxJournal == 2        \* lines a run writes to the journal
MaxParts == 2          \* write() calls the flush of one journal line takes
MaxLines == 3          \* lines a run begins in the journal file
MaxTasks == 2          \* files in .hydra/tasks
MaxPattern == 4        \* characters of an allow pattern
MaxTrunk == 1          \* commits a run's merges put on trunk

VARIABLES
  locks,          \* committed content of table locks: a set of rows
  writer,         \* the process holding the database write lock, or NoProc
  proc,           \* per process: position and locals of its command, or the
                  \* outcome of the command it has finished
  live,           \* tmux sessions that exist (tmux has-session succeeds)
  tmuxAvailable,  \* shutil.which("tmux") is not None
  clock,          \* time.time() in whole seconds
  branches,       \* the (agent, task) whose branch agent/<agent>/<task> exists
  dirs,           \* the (agent, task) whose directory .agents/<agent>/<task> exists
  tree,           \* git status of the snapshot workspace, path by path
  head,           \* number of commits on the branch of the snapshot workspace
  journal,        \* the lines of .hydra/journal.jsonl, in file order
  snap,           \* position and locals of the snapshot command
  jfile,          \* the bytes of .hydra/journal.jsonl, write by write
  flock,          \* the process holding flock(LOCK_EX) on the journal, or NoProc
  app,            \* per process: position and locals of its journal append
  changes,        \* what the last run of the changes command read and printed
  repo,           \* the trunk of the git repository and the agents' work
  mrg,            \* per process: position and locals of its merge or rollback
  taskdir,        \* the files of .hydra/tasks: task id and content
  mk,             \* per process: position and locals of its task command
  val,            \* the last allow pattern validated and what came of it
  listing,        \* the rows `hydra locks list` printed last
  dry             \* the processes whose agent open is given --dry-run

\* everything outside the lock store and its processes
\* the journal file byte by byte, its writers and its reader
jrn == <<jfile, flock, app, changes>>

\* the trunk and the commands that work on it
git == <<repo, mrg>>

\* the task descriptors, their patterns, and what the caller sees and asks
adm == <<taskdir, mk, val, listing, dry>>

ext == <<jrn, git, adm>>

world == <<branches, dirs, tree, head, journal, snap, ext>>

vars == <<locks, writer, proc, live, tmuxAvailable, clock, world>>

\* ------------------------------------------------------------- the table
Row(f, a, t, ts, s) ==
  [file |-> f, agent |-> a, task |-> t, locked_at |-> ts, tmux_session |-> s]

\* CREATE TABLE locks (file TEXT PRIMARY KEY, ...): an INSERT of a file that
\* already has a row raises sqlite3.IntegrityError.
NoPrimaryKey(tbl, f) == FALSE

PrimaryKeyViolated(tbl, f) == \E r \in tbl : r.file = f

SqlInsert(tbl, row) ==
  IF PrimaryKeyViolated(tbl, row.file)
  THEN [ok |-> FALSE, tbl |-> tbl]
  ELSE [ok |-> TRUE, tbl |-> tbl \cup {row}]

\* UPDATE locks SET agent=?, task=?, locked_at=?, tmux_session=? WHERE file=?
SqlUpdateFile(tbl, row) ==
  {IF r.file = row.file THEN row ELSE r : r \in tbl}

\* SELECT file, agent, task FROM locks WHERE file IN (...)
SqlSelectFiles(tbl, files) == {r \in tbl : r.file \in files}

\* DELETE FROM locks WHERE tmux_session=?
SqlDeleteSession(tbl, s) == {r \in tbl : r.tmux_session # s}

SqlDeleteAgent(tbl, a, t) == {r \in tbl : r.agent # a}

\* DELETE FROM locks WHERE agent=? AND task=?
SqlDeleteOwner(tbl, a, t) == {r \in tbl : ~(r.agent = a /\ r.task = t)}

\* UPDATE locks SET tmux_session=? WHERE agent=? AND task=?
SqlUpdateSession(tbl, a, t, s) ==
  {IF r.agent = a /\ r.task = t THEN [r EXCEPT !.tmux_session = s] ELSE r
     : r \in tbl}

\* SELECT DISTINCT tmux_session FROM locks
\*   WHERE tmux_session IS NOT NULL AND tmux_session != ''
SqlDistinctSessions(tbl) == {r.tmux_session : r \in tbl} \ {NULL, EMPTY}

\* the rowcount of a DELETE or UPDATE that turned `before` into `after`
RowsOf(tbl, a, t) == {r \in tbl : r.agent = a /\ r.task = t}

\* ------------------------------------------------------------- helpers
Min(S) == CHOOSE x \in S : \A y \in S : x <= y

RECURSIVE FirstN(_, _)
\* lst[:n] of a list held in ascending order, as the set of its elements
FirstN(S, n) ==
  IF n = 0 \/ S = {} THEN {} ELSE {Min(S)} \cup FirstN(S \ {Min(S)}, n - 1)

\* a != agent or t != task: the row belongs to a different (agent, task)
OtherOwner(r, a, t) == r.agent # a \/ r.task # t

TmuxSessionAssumed(s) == tmuxAvailable

\* _tmux_session_exists: tmux has-session -t session returns 0
TmuxSessionExists(s) == tmuxAvailable /\ s \in live

\* ------------------------------------------------------------- processes
IdleProc ==
  [pc |-> "idle", cmd |-> "none", agent |-> "", task |-> "", files |-> {},
   session |-> NULL, now |-> 0, work |-> {}, todo |-> {}, dead |-> {},
   conf |-> {}, outcome |-> "none", listed |-> {}, more |-> 0, count |-> 0,
   opt |-> FALSE]

\* a process is free to run a command when it has none in progress
Free(p) == proc[p].pc \in {"idle", "done"}

\* the locals of a command that has just started with these arguments
Started(c, pc0, o, fs, s, now) ==
  [IdleProc EXCEPT !.pc = pc0, !.cmd = c, !.agent = o[1], !.task = o[2],
                   !.files = fs, !.session = s, !.now = now]

\* _now_ts() is read before BEGIN IMMEDIATE, which may then wait for the write
\* lock: the value a transaction works with is the clock of some earlier moment.
NowValues == 0..clock

\* What the caller of a finished command sees: the command and its arguments,
\* how it ended, the paths its error message lists (and how many more it only
\* counts), and the number it returns.  The locals are gone.
Result(me, o, l, m, n) ==
  [IdleProc EXCEPT !.pc = "done", !.cmd = me.cmd, !.outcome = o,
                   !.listed = l, !.more = m, !.count = n]

\* an entry of an error message: "- file (held by agent / task)"
Entry(f, a, t) == [file |-> f, agent |-> a, task |-> t]

Finish(p, r) == proc' = [proc EXCEPT ![p] = r]

\* ------------------------------------------------- the snapshot workspace
\* the rows git status --porcelain can show for the workspace: a tracked file
\* and a path that may also come up as an untracked directory
SnapPaths == {"x", "y"}

\* a path without a status row
Clean == [st |-> "clean", age |-> 0]

\* cmd_snapshot is not running
IdleSnap ==
  [pc |-> "idle", debounce |-> 0, max_wait |-> 0, elapsed |-> 0,
   outcome |-> "none", sha |-> 0]

\* conn.execute("BEGIN IMMEDIATE;"): the command gets the database write lock
\* once no other connection holds it, and from then on works on its own copy
\* of the table.  What a command does before it (reading its arguments and
\* the clock) touches nothing shared, so the command is taken to start here.
BeginImmediate(p, me) ==
  /\ Free(p)
  /\ writer = NoProc
  /\ writer' = p
  /\ proc' = [proc EXCEPT ![p] = [me EXCEPT !.work = locks]]
  /\ UNCHANGED <<locks, live, tmuxAvailable, clock, world>>

\* conn.commit(): the transaction's table becomes the committed one
Commit(p, r) ==
  /\ writer = p
  /\ locks' = proc[p].work
  /\ writer' = NoProc
  /\ Finish(p, r)
  /\ UNCHANGED <<live, tmuxAvailable, clock, world>>

RollbackKeepsWork(p, r) ==
  /\ writer = p
  /\ locks' = proc[p].work
  /\ writer' = NoProc
  /\ Finish(p, r)
  /\ UNCHANGED <<live, tmuxAvailable, clock, world>>

\* conn.rollback(): the committed table stays as it was
Rollback(p, r) ==
  /\ writer = p
  /\ writer' = NoProc
  /\ Finish(p, r)
  /\ UNCHANGED <<locks, live, tmuxAvailable, clock, world>>

\* ------------------------------------------------- _cleanup_dead_locks
\* The pass starts: without tmux it is over at once (return 0); otherwise the
\* distinct non-empty session tags of the table are fetched.
CleanupStart(tbl) == IF tmuxAvailable THEN SqlDistinctSessions(tbl) ELSE {}

\* One turn of `for (session,) in rows`: a session that exists is skipped,
\* the rows of one that does not are deleted.
CleanupProbe(p, s) ==
  /\ s \in proc[p].todo
  /\ proc' = [proc EXCEPT
       ![p].todo = @ \ {s},
       ![p].work = IF TmuxSessionExists(s) THEN @ ELSE SqlDeleteSession(@, s),
       ![p].dead = IF s \in live THEN @ ELSE @ \cup {s}]
  /\ UNCHANGED <<locks, writer, live, tmuxAvailable, clock, world>>

\* ------------------------------------------------------- _acquire_locks
\* cmd_agent_open --lock calls _acquire_locks with tmux_session=None;
\* unique = sorted(set(files)) and now = _now_ts() are taken before BEGIN.
AcquireBegin(p, o, fs, now) ==
  BeginImmediate(p, [Started("acquire", "acq_gc", o, fs, NULL, now)
                       EXCEPT !.todo = CleanupStart(locks)])

AcquireCleanup(p) ==
  /\ proc[p].pc = "acq_gc"
  /\ \E s \in proc[p].todo : CleanupProbe(p, s)

\* conflicts = [(f, a, t) for (f, a, t) in rows if (a != agent or t != task)]
AcquireConflicts(tbl, fs, a, t) ==
  {r \in SqlSelectFiles(tbl, fs) : OtherOwner(r, a, t)}

\* the error message names conflicts[:20] and counts the rest
AcquireReportLimit == 20

\* After the cleanup: an empty request commits at once; a conflict raises
\* and rolls back; otherwise the insert loop starts.
AcquireCheck(p) ==
  LET me == proc[p]
      conflicts == AcquireConflicts(me.work, me.files, me.agent, me.task)
      cfiles == {r.file : r \in conflicts}
      listed == FirstN(cfiles, AcquireReportLimit)
  IN /\ me.pc = "acq_gc"
     /\ me.todo = {}
     /\ IF me.files = {}
        THEN Commit(p, Result(proc[p], "ok", {}, 0, 0))
        ELSE IF conflicts # {}
        THEN Rollback(p, Result(me, "conflict",
                                {Entry(r.file, r.agent, r.task) :
                                   r \in {c \in conflicts : c.file \in listed}},
                                Cardinality(cfiles) - Cardinality(listed), 0))
        ELSE /\ proc' = [proc EXCEPT ![p].pc = "acq_write", ![p].todo = me.files]
             /\ UNCHANGED <<locks, writer, live, tmuxAvailable, clock, world>>

AcquireInsertOrIgnore(tbl, row) == SqlInsert(tbl, row).tbl

\* INSERT the row; on sqlite3.IntegrityError UPDATE it instead
AcquireUpsert(tbl, row) ==
  IF SqlInsert(tbl, row).ok THEN SqlInsert(tbl, row).tbl
  ELSE SqlUpdateFile(tbl, row)

\* one turn of `for f in unique`
AcquireWrite(p) ==
  LET me == proc[p]
      f == Min(me.todo)
  IN /\ me.pc = "acq_write"
     /\ me.todo # {}
     /\ proc' = [proc EXCEPT
          ![p].todo = @ \ {f},
          ![p].work = AcquireUpsert(@, Row(f, me.agent, me.task, me.now, me.session))]
     /\ UNCHANGED <<locks, writer, live, tmuxAvailable, clock, world>>

AcquireCommit(p) ==
  /\ proc[p].pc = "acq_write"
  /\ proc[p].todo = {}
  /\ Commit(p, Result(proc[p], "ok", {}, 0, 0))

\* ------------------------------------------------------- _release_locks
ReleaseBegin(p, o) ==
  BeginImmediate(p, Started("release", "rel_delete", o, {}, NULL, 0))

\* DELETE FROM locks WHERE agent=? AND task=?; released is its rowcount
ReleaseDelete(p) ==
  LET me == proc[p]
  IN /\ me.pc = "rel_delete"
     /\ proc' = [proc EXCEPT
          ![p].pc = "rel_commit",
          ![p].conf = RowsOf(me.work, me.agent, me.task),
          ![p].work = SqlDeleteOwner(me.work, me.agent, me.task)]
     /\ UNCHANGED <<locks, writer, live, tmuxAvailable, clock, world>>

ReleaseNoCommit(p) ==
  /\ proc[p].pc = "rel_commit"
  /\ Rollback(p, Result(proc[p], "ok", {}, 0, Cardinality(proc[p].conf)))

ReleaseCommit(p) ==
  /\ proc[p].pc = "rel_commit"
  /\ Commit(p, Result(proc[p], "ok", {}, 0, Cardinality(proc[p].conf)))

\* ---------------------------------------------- _set_locks_tmux_session
\* cmd_agent_open backfills the tag once _start_tmux_window has created the
\* agent's window in the project session: tmux is there and the session exists.
SetSessionBegin(p, o, s) ==
  /\ tmuxAvailable
  /\ s \in live
  /\ BeginImmediate(p, Started("setSession", "set_update", o, {}, s, 0))

SetSessionUpdate(p) ==
  LET me == proc[p]
  IN /\ me.pc = "set_update"
     /\ proc' = [proc EXCEPT
          ![p].pc = "set_commit",
          ![p].conf = RowsOf(me.work, me.agent, me.task),
          ![p].work = SqlUpdateSession(me.work, me.agent, me.task, me.session)]
     /\ UNCHANGED <<locks, writer, live, tmuxAvailable, clock, world>>

SetSessionCommit(p) ==
  /\ proc[p].pc = "set_commit"
  /\ Commit(p, Result(proc[p], "ok", {}, 0, Cardinality(proc[p].conf)))

\* ---------------------------------------------------- cmd_locks_cleanup
LocksCleanupBegin(p) ==
  BeginImmediate(p, [Started("gc", "gc_scan", <<"", "">>, {}, NULL, 0)
                       EXCEPT !.todo = CleanupStart(locks)])

LocksCleanupProbe(p) ==
  /\ proc[p].pc = "gc_scan"
  /\ \E s \in proc[p].todo : CleanupProbe(p, s)

\* released sums the rowcounts of the DELETEs
LocksCleanupCommit(p) ==
  /\ proc[p].pc = "gc_scan"
  /\ proc[p].todo = {}
  /\ Commit(p, Result(proc[p], "ok", {}, 0,
                      Cardinality(locks) - Cardinality(proc[p].work)))

\* ----------------------------------------------------- _hook_pre_commit
\* fnmatch.fnmatch(path, pattern): a pattern stands for the set of paths it
\* matches.
Matches(path, pattern) == path \in pattern

\* _path_is_allowed: some raw pattern of the task matches the path
PathIsAllowed(path, allow_patterns) ==
  \E pattern \in allow_patterns : Matches(path, pattern)

\* _load_task(tasks_dir, task_id).allow: t1 may touch path 1 only, t2 every
\* small path.
TaskAllow(task) == IF task = "t1" THEN {{1}} ELSE {{1}, SmallFiles}

\* both error messages of the hook name the first 50 paths and count the rest
HookReportLimit == 50

\* the staged paths the task's allow list does not cover
NotAllowed(staged, task) == {f \in staged : ~PathIsAllowed(f, TaskAllow(task))}

\* The commit passes without a look at the database under HYDRA_SKIP_HOOKS
\* (or without AGENT_ID/TASK_ID) and with an empty index; a staged path
\* outside the allow list blocks it before the database is opened.
HookEarly(p, o, staged, skip) ==
  LET me == Started("hook", "hook_scan", o, staged, EMPTY, 0)
      not_allowed == NotAllowed(staged, o[2])
      listed == FirstN(not_allowed, HookReportLimit)
  IN /\ Free(p)
     /\ skip \/ staged = {} \/ not_allowed # {}
     /\ IF skip \/ staged = {}
        THEN Finish(p, Result(me, "allowed", {}, 0, 0))
        ELSE Finish(p, Result(me, "blocked", {Entry(f, "", "") : f \in listed},
                              Cardinality(not_allowed) - Cardinality(listed), 0))
     /\ UNCHANGED <<locks, writer, live, tmuxAvailable, clock, world>>

\* otherwise now = _now_ts() is read and the transaction begins
HookBegin(p, o, staged, now) ==
  /\ staged # {}
  /\ NotAllowed(staged, o[2]) = {}
  /\ BeginImmediate(p, [Started("hook", "hook_scan", o, staged, EMPTY, now)
                          EXCEPT !.todo = staged])

HookScanNoInsert(p) ==
  LET me == proc[p]
      f == Min(me.todo)
      row == SqlSelectFiles(me.work, {f})
  IN /\ me.pc = "hook_scan"
     /\ me.todo # {}
     /\ proc' = [proc EXCEPT
          ![p].todo = @ \ {f},
          ![p].conf = @ \cup {r \in row : OtherOwner(r, me.agent, me.task)}]
     /\ UNCHANGED <<locks, writer, live, tmuxAvailable, clock, world>>

\* One turn of `for rel in staged`: a path without a row is locked for the
\* committer with an empty session tag; a row of another owner is a conflict.
HookScan(p) ==
  LET me == proc[p]
      f == Min(me.todo)
      row == SqlSelectFiles(me.work, {f})
  IN /\ me.pc = "hook_scan"
     /\ me.todo # {}
     /\ proc' = [proc EXCEPT
          ![p].todo = @ \ {f},
          ![p].work = IF row = {}
                      THEN SqlInsert(@, Row(f, me.agent, me.task, me.now, me.session)).tbl
                      ELSE @,
          ![p].conf = @ \cup {r \in row : OtherOwner(r, me.agent, me.task)}]
     /\ UNCHANGED <<locks, writer, live, tmuxAvailable, clock, world>>

\* `if conflicts: raise` (rolled back by the except clause), else commit
HookDecide(p) ==
  LET me == proc[p]
      cfiles == {r.file : r \in me.conf}
      listed == FirstN(cfiles, HookReportLimit)
  IN /\ me.pc = "hook_scan"
     /\ me.todo = {}
     /\ IF me.conf # {}
        THEN Rollback(p, Result(me, "blocked",
                                {Entry(r.file, r.agent, r.task) :
                                   r \in {c \in me.conf : c.file \in listed}},
                                Cardinality(cfiles) - Cardinality(listed), 0))
        ELSE Commit(p, Result(me, "allowed", {}, 0, 0))

\* ---------------------------------------------------------- cmd_agent_open
\* config.get("tmux_session", "hydra"): the one session of the project
ProjectSession == "s1"

\* _expand_allow: the concrete paths of the task's patterns
ExpandAllow(task) == UNION TaskAllow(task)

RECURSIVE CleanupAll(_, _)
\* the whole loop of _cleanup_dead_locks over the fetched session tags
CleanupAll(tbl, todo) ==
  IF todo = {} THEN tbl
  ELSE LET s == CHOOSE x \in todo : TRUE
       IN CleanupAll(IF TmuxSessionExists(s) THEN tbl ELSE SqlDeleteSession(tbl, s),
                     todo \ {s})

RECURSIVE UpsertAll(_, _, _, _, _, _)
\* the whole loop `for f in unique` of _acquire_locks
UpsertAll(tbl, todo, a, t, now, s) ==
  IF todo = {} THEN tbl
  ELSE UpsertAll(AcquireUpsert(tbl, Row(Min(todo), a, t, now, s)),
                 todo \ {Min(todo)}, a, t, now, s)

\* agent open --lock: _acquire_locks(files_to_lock, tmux_session=None) in one
\* transaction; a conflict raises before anything is created.
OpenLock(p, o) ==
  LET me == [Started("open", "open_create", o, ExpandAllow(o[2]), NULL, clock)
               EXCEPT !.opt = TRUE]
      cleaned == CleanupAll(locks, CleanupStart(locks))
      conflicts == AcquireConflicts(cleaned, me.files, o[1], o[2])
      cfiles == {r.file : r \in conflicts}
      listed == FirstN(cfiles, AcquireReportLimit)
  IN /\ Free(p)
     /\ writer = NoProc
     /\ IF conflicts # {}
        THEN /\ Finish(p, Result(me, "conflict",
                                 {Entry(r.file, r.agent, r.task) :
                                    r \in {c \in conflicts : c.file \in listed}},
                                 Cardinality(cfiles) - Cardinality(listed), 0))
             /\ UNCHANGED locks
        ELSE /\ locks' = UpsertAll(cleaned, me.files, o[1], o[2], clock, NULL)
             /\ proc' = [proc EXCEPT ![p] = me]
     /\ UNCHANGED <<writer, live, tmuxAvailable, clock, world>>

\* agent open without --lock goes straight to the worktree
OpenNoLock(p, o) ==
  /\ Free(p)
  /\ proc' = [proc EXCEPT
       ![p] = Started("open", "open_create", o, ExpandAllow(o[2]), NULL, clock)]
  /\ UNCHANGED <<locks, writer, live, tmuxAvailable, clock, world>>

\* an exception inside the try block: with --lock the locks are released
\* before it propagates
OpenRaise(p) ==
  IF proc[p].opt
  THEN proc' = [proc EXCEPT ![p].pc = "open_undo"]
  ELSE Finish(p, Result(proc[p], "error", {}, 0, 0))

OpenCreateBlind(p) ==
  LET o == <<proc[p].agent, proc[p].task>>
  IN /\ proc[p].pc = "open_create"
     /\ branches' = branches \cup {o}
     /\ dirs' = dirs \cup {o}
     /\ proc' = [proc EXCEPT ![p].pc = "open_window"]
     /\ UNCHANGED <<locks, writer, live, tmuxAvailable, clock, ext,
                    tree, head, journal, snap>>

\* _create_worktree, _share_deps and the hydra.py symlink: an existing
\* directory or branch raises; git worktree add -b creates both or fails;
\* sharing the dependencies may still raise afterwards.
OpenCreate(p) ==
  LET o == <<proc[p].agent, proc[p].task>>
  IN /\ proc[p].pc = "open_create"
     /\ IF o \in dirs \/ o \in branches
        THEN OpenRaise(p) /\ UNCHANGED <<branches, dirs>>
        ELSE \E how \in {"created", "git fails", "deps fail"} :
               /\ branches' = IF how = "git fails" THEN branches
                              ELSE branches \cup {o}
               /\ dirs' = IF how = "git fails" THEN dirs ELSE dirs \cup {o}
               /\ IF how = "created"
                  THEN proc' = [proc EXCEPT ![p].pc = "open_window"]
                  ELSE OpenRaise(p)
     /\ UNCHANGED <<locks, writer, live, tmuxAvailable, clock, ext,
                    tree, head, journal, snap>>

\* Without tmux the command is done.  Otherwise _start_tmux_window raises if
\* the window is there already or tmux new-window fails (no such session);
\* once the window is up, --lock tags the rows with the project session.
OpenWindow(p) ==
  LET me == proc[p]
  IN /\ me.pc = "open_window"
     /\ IF ~tmuxAvailable
        THEN Finish(p, Result(me, "ok", {}, 0, 0)) /\ UNCHANGED locks
        ELSE \E window_exists \in BOOLEAN :
               IF window_exists \/ ProjectSession \notin live
               THEN OpenRaise(p) /\ UNCHANGED locks
               ELSE /\ me.opt => writer = NoProc
                    /\ locks' = IF me.opt
                                THEN SqlUpdateSession(locks, me.agent, me.task,
                                                      ProjectSession)
                                ELSE locks
                    /\ Finish(p, Result(me, "ok", {}, 0, 0))
     /\ UNCHANGED <<writer, live, tmuxAvailable, clock, world>>

OpenUndoSkipped(p) ==
  /\ proc[p].pc = "open_undo"
  /\ Finish(p, Result(proc[p], "error", {}, 0, 0))
  /\ UNCHANGED <<locks, writer, live, tmuxAvailable, clock, world>>

\* except Exception: _release_locks(conn, agent, task); raise
OpenUndo(p) ==
  /\ proc[p].pc = "open_undo"
  /\ writer = NoProc
  /\ locks' = SqlDeleteOwner(locks, proc[p].agent, proc[p].task)
  /\ Finish(p, Result(proc[p], "error", {}, 0, 0))
  /\ UNCHANGED <<writer, live, tmuxAvailable, clock, world>>

\* --------------------------------------------------------- cmd_agent_close
\* the tmux window is closed (a failure is only a warning), then
\* _release_locks runs; without --remove-worktree that is all
CloseRelease(p, o, remove) ==
  LET me == [Started("close", "close_remove", o, {}, NULL, 0)
               EXCEPT !.opt = remove,
                      !.count = Cardinality(RowsOf(locks, o[1], o[2]))]
  IN /\ Free(p)
     /\ writer = NoProc
     /\ locks' = SqlDeleteOwner(locks, o[1], o[2])
     /\ IF remove
        THEN proc' = [proc EXCEPT ![p] = me]
        ELSE Finish(p, Result(me, "ok", {}, 0, me.count))
     /\ UNCHANGED <<writer, live, tmuxAvailable, clock, world>>

\* git worktree remove --force through _run(check=True): a command that
\* fails raises, and "Released n locks" is never printed
CloseRemove(p) ==
  LET me == proc[p]
      o == <<me.agent, me.task>>
  IN /\ me.pc = "close_remove"
     /\ \E git_fails \in BOOLEAN :
          IF o \notin dirs \/ git_fails
          THEN Finish(p, Result(me, "error", {}, 0, 0)) /\ UNCHANGED dirs
          ELSE Finish(p, Result(me, "ok", {}, 0, me.count)) /\ dirs' = dirs \ {o}
     /\ UNCHANGED <<locks, writer, live, tmuxAvailable, clock, ext,
                    branches, tree, head, journal, snap>>

\* ------------------------------------------------------------ cmd_snapshot
\* the workspace snapshots are taken of
SnapOwner == <<"a1", "t1">>

\* --max-wait inf (argparse type=float takes it): a time no wait reaches
Inf == MaxAge + 1

\* --debounce and --max-wait; zero stands for every value <= 0
Debounces == 0..MaxAge
MaxWaits == (0..MaxAge) \cup {Inf}

\* cmd_init leaves `_install_git_hooks(root)` commented out, and nothing else
\* calls it: git runs no hook of hydra when hydra commits
HooksInstalled == FALSE

\* _git_status_porcelain: the paths with a status row
Changed(tr) == {x \in SnapPaths : tr[x].st # "clean"}

\* the rows the loop of _wait_for_worktree_quiet takes an mtime from: the
\* path exists (stat succeeds) and p.is_file()
Statted(tr) == {x \in SnapPaths : tr[x].st = "file"}

\* time.time() - latest_mtime, or debounce_seconds when no mtime was taken
QuietFor(tr, debounce) ==
  IF Statted(tr) = {} THEN debounce
  ELSE Min({tr[x].age : x \in Statted(tr)})

\* one more poll interval has gone by for everything that has an mtime
Aged(tr) ==
  [x \in SnapPaths |->
     IF tr[x].st \in {"file", "dir"}
     THEN [tr[x] EXCEPT !.age = Min({@ + 1, MaxAge})]
     ELSE tr[x]]

\* what the caller of a finished snapshot sees
SnapResult(o, sha) == [IdleSnap EXCEPT !.pc = "done", !.outcome = o, !.sha = sha]

\* the record _hook_post_commit builds
JournalEntry(ts, sha, agent, task) ==
  [ts |-> ts, sha |-> sha, agent |-> agent, task |-> task]

\* up to the first status: a missing worktree is an error, a clean one is
\* "No changes"; debounce <= 0 skips the wait
SnapStart(debounce, max_wait) ==
  /\ snap.pc \in {"idle", "done"}
  /\ head < MaxCommits
  /\ snap' = IF SnapOwner \notin dirs THEN SnapResult("error", 0)
             ELSE IF Changed(tree) = {} THEN SnapResult("no changes", 0)
             ELSE [IdleSnap EXCEPT !.pc = IF debounce <= 0 THEN "add" ELSE "poll",
                                   !.debounce = debounce,
                                   !.max_wait = max_wait]
  /\ UNCHANGED <<locks, writer, proc, live, tmuxAvailable, clock, ext,
                 branches, dirs, tree, head, journal>>

\* one turn of `while True` up to the sleep
SnapPoll ==
  /\ snap.pc = "poll"
  /\ snap' = IF Changed(tree) = {} THEN [snap EXCEPT !.pc = "add"]
             ELSE IF QuietFor(tree, snap.debounce) >= snap.debounce
             THEN [snap EXCEPT !.pc = "add"]
             ELSE IF snap.elapsed >= snap.max_wait
             THEN SnapResult("timeout", 0)
             ELSE [snap EXCEPT !.pc = "sleep"]
  /\ UNCHANGED <<locks, writer, proc, live, tmuxAvailable, clock, ext,
                 branches, dirs, tree, head, journal>>

\* time.sleep(min(poll_seconds, max(0.05, ...))): time moves on
SnapSleep ==
  /\ snap.pc = "sleep"
  /\ snap' = [snap EXCEPT !.pc = "poll", !.elapsed = Min({@ + 1, MaxAge})]
  /\ tree' = Aged(tree)
  /\ UNCHANGED <<locks, writer, proc, live, tmuxAvailable, clock, ext,
                 branches, dirs, head, journal>>

SnapAddAllowEmpty ==
  /\ snap.pc = "add"
  /\ snap' = SnapResult("committed", head + 1)
  /\ head' = head + 1
  /\ tree' = [x \in SnapPaths |-> Clean]
  /\ UNCHANGED <<locks, writer, proc, live, tmuxAvailable, clock, ext,
                 branches, dirs, journal>>

\* git add -A; nothing staged is "No changes"; else git commit, which runs
\* the post-commit hook if one is installed, and the new HEAD is printed
SnapAdd ==
  /\ snap.pc = "add"
  /\ IF Changed(tree) = {}
     THEN /\ snap' = SnapResult("no changes", 0)
          /\ UNCHANGED <<tree, head, journal>>
     ELSE /\ snap' = SnapResult("committed", head + 1)
          /\ head' = head + 1
          /\ tree' = [x \in SnapPaths |-> Clean]
          /\ journal' = IF HooksInstalled
                        THEN Append(journal, JournalEntry(clock, head + 1,
                                                          SnapOwner[1], SnapOwner[2]))
                        ELSE journal
  /\ UNCHANGED <<locks, writer, proc, live, tmuxAvailable, clock, ext,
                 branches, dirs>>

\* ------------------------------------------------------ _hook_post_commit
JournalOverwrite(entry) == journal' = <<entry>>

\* _append_journal_jsonl: open(path, "a"), flock, write one line, fsync
JournalAppend(entry) == journal' = Append(journal, entry)

\* `hydra hook post-commit` run in the workspace with AGENT_ID and TASK_ID
\* set: sha is git rev-parse HEAD
HookPostCommit(o) ==
  /\ SnapOwner \in dirs
  /\ Len(journal) < MaxJournal
  /\ JournalAppend(JournalEntry(clock, head, o[1], o[2]))
  /\ UNCHANGED <<locks, writer, proc, live, tmuxAvailable, clock, ext,
                 branches, dirs, tree, head, snap>>

\* ------------------------------------------------- the agent at its files
\* the agent writes a tracked file, or a file in a directory git does not
\* know yet (one `?? dir/` row), or deletes a file
AgentWrites(x, st) ==
  /\ SnapOwner \in dirs
  /\ tree' = [tree EXCEPT ![x] = [st |-> st, age |-> 0]]
  /\ UNCHANGED <<locks, writer, proc, live, tmuxAvailable, clock, ext,
                 branches, dirs, head, journal, snap>>

\* the agent undoes its change of a path
AgentDiscards(x) ==
  /\ tree[x].st # "clean"
  /\ tree' = [tree EXCEPT ![x] = Clean]
  /\ UNCHANGED <<locks, writer, proc, live, tmuxAvailable, clock, ext,
                 branches, dirs, head, journal, snap>>

\* a poll interval goes by
Pass ==
  /\ \/ tree # Aged(tree)
     \/ snap.pc \in {"poll", "sleep"} /\ snap.elapsed < MaxAge
  /\ tree' = Aged(tree)
  /\ snap' = IF snap.pc \in {"poll", "sleep"}
             THEN [snap EXCEPT !.elapsed = Min({@ + 1, MaxAge})]
             ELSE snap
  /\ UNCHANGED <<locks, writer, proc, live, tmuxAvailable, clock, ext,
                 branches, dirs, head, journal>>

\* ------------------------------------------------- _append_journal_jsonl
\* One text line of the journal file, as json.loads and the field
\* conversions of _read_journal_entries tell them apart.
JsonObject(entry) == [form |-> "dict", obj |-> entry]
\* {} : every field is missing and takes its default
EmptyObject == JsonObject(JournalEntry(0, <<"", 0>>, "", ""))
\* whitespace only; not JSON at all; JSON but no object; an object whose ts
\* int() refuses
ForeignForms == {"blank", "garbage", "list", "badts"}

\* json.dumps(obj) + "\n" reaches the file in up to MaxParts write() calls;
\* the last one carries the newline.
Piece(text, k) == [of |-> text, part |-> k, nl |-> (k = MaxParts)]

IdleApp == [pc |-> "idle", line |-> EmptyObject, sent |-> 0, n |-> 0]

\* lines begun so far, whole or not
Begun ==
  Cardinality({i \in DOMAIN jfile : jfile[i].part = 1})
  + Cardinality({p \in Procs : app[p].pc \in {"flock", "write"} /\ app[p].sent = 0})

\* _hook_post_commit builds the entry from the clock and the commit, then
\* _append_journal_jsonl opens the file for appending.
AppendOpen(p, o) ==
  /\ app[p].pc = "idle"
  /\ Begun < MaxLines
  /\ app' = [app EXCEPT ![p] =
       [pc |-> "flock",
        line |-> JsonObject(JournalEntry(clock, <<p, app[p].n>>, o[1], o[2])),
        sent |-> 0, n |-> app[p].n + 1]]
  /\ UNCHANGED <<locks, writer, proc, live, tmuxAvailable, clock,
                 branches, dirs, tree, head, journal, snap, git, adm,
                 jfile, flock, changes>>

AppendFlockSkipped(p) ==
  /\ app[p].pc = "flock"
  /\ app' = [app EXCEPT ![p].pc = "write"]
  /\ UNCHANGED <<locks, writer, proc, live, tmuxAvailable, clock,
                 branches, dirs, tree, head, journal, snap, git, adm,
                 jfile, flock, changes>>

\* fcntl.flock(f.fileno(), fcntl.LOCK_EX): blocks while another open file
\* description holds the lock
AppendFlock(p) ==
  /\ app[p].pc = "flock"
  /\ flock = NoProc
  /\ flock' = p
  /\ app' = [app EXCEPT ![p].pc = "write"]
  /\ UNCHANGED <<locks, writer, proc, live, tmuxAvailable, clock,
                 branches, dirs, tree, head, journal, snap, git, adm,
                 jfile, changes>>

\* f.write(line); f.flush(): the file is open with O_APPEND, so every
\* write() lands at the end the file has at that moment
AppendWrite(p) ==
  /\ app[p].pc = "write"
  /\ jfile' = Append(jfile, Piece(app[p].line, app[p].sent + 1))
  /\ app' = [app EXCEPT ![p].sent = @ + 1,
                        ![p].pc = IF app[p].sent + 1 = MaxParts
                                  THEN "unlock" ELSE "write"]
  /\ UNCHANGED <<locks, writer, proc, live, tmuxAvailable, clock,
                 branches, dirs, tree, head, journal, snap, git, adm,
                 flock, changes>>

\* os.fsync, fcntl.flock(f.fileno(), fcntl.LOCK_UN), the file is closed
AppendUnlock(p) ==
  /\ app[p].pc = "unlock"
  /\ flock' = IF flock = p THEN NoProc ELSE flock
  /\ app' = [app EXCEPT ![p].pc = "idle", ![p].sent = 0]
  /\ UNCHANGED <<locks, writer, proc, live, tmuxAvailable, clock,
                 branches, dirs, tree, head, journal, snap, git, adm,
                 jfile, changes>>

\* Somebody other than hydra (an editor, a script) leaves a line that is
\* not a record of _hook_post_commit.
ForeignLine(text) ==
  /\ Begun < MaxLines
  /\ flock = NoProc
  /\ jfile' = Append(jfile, [of |-> text, part |-> 1, nl |-> TRUE])
  /\ UNCHANGED <<locks, writer, proc, live, tmuxAvailable, clock,
                 branches, dirs, tree, head, journal, snap, git, adm,
                 flock, app, changes>>

\* ------------------------------------------------- _read_journal_entries
\* for idx, raw in enumerate(f): the file cut at its newlines; what follows
\* the last newline is a line too
RECURSIVE SplitLines(_, _)
SplitLines(f, cur) ==
  IF f = <<>> THEN (IF cur = <<>> THEN <<>> ELSE <<cur>>)
  ELSE IF Head(f).nl
       THEN <<Append(cur, Head(f))>> \o SplitLines(Tail(f), <<>>)
       ELSE SplitLines(Tail(f), Append(cur, Head(f)))

\* raw.strip() is empty
IsBlank(raw) == \A i \in DOMAIN raw : raw[i].of.form = "blank"

\* what is left of the line once the blank pieces are stripped from its ends
\* reads as the JSON text of one object: the pieces of one json.dumps, all
\* of them, in order
IsObject(raw) ==
  LET body == SelectSeq(raw, LAMBDA c : c.of.form # "blank") IN
    /\ Len(body) = MaxParts
    /\ \A i \in 1..MaxParts :
         /\ body[i].of = body[1].of
         /\ body[i].part = i
    /\ body[1].of.form = "dict"
    /\ \A i \in DOMAIN raw :
         raw[i].of.form = "blank" =>
           (\A j \in 1..i : raw[j].of.form = "blank")
           \/ (\A j \in i..Len(raw) : raw[j].of.form = "blank")

ObjectOf(raw) == SelectSeq(raw, LAMBDA c : c.of.form # "blank")[1].of.obj

\* entries.append(JournalEntry(..., index=idx)); idx counts every line of
\* the file from 0
IndexedEntry(obj, idx) ==
  [ts |-> obj.ts, sha |-> obj.sha, agent |-> obj.agent, task |-> obj.task,
   index |-> idx]

ReadJournalEntries(f) ==
  LET lines == SplitLines(f, <<>>)
      good == {i \in DOMAIN lines : ~IsBlank(lines[i]) /\ IsObject(lines[i])}
      bad == {i \in DOMAIN lines : ~IsBlank(lines[i]) /\ ~IsObject(lines[i])}
      RECURSIVE Collect(_)
      Collect(i) ==
        IF i > Len(lines) THEN <<>>
        ELSE IF i \in good
             THEN <<IndexedEntry(ObjectOf(lines[i]), i - 1)>> \o Collect(i + 1)
             ELSE Collect(i + 1)
  IN [entries |-> Collect(1), invalid |-> Cardinality(bad)]

\* ------------------------------------------------------------ cmd_changes
\* the sort key (int(x.ts), int(x.index))
KeyBefore(a, b) == a.ts < b.ts \/ (a.ts = b.ts /\ a.index < b.index)

Unsorted(s) == s

\* filtered.sort(key=...): list.sort is stable and ascending
RECURSIVE SortEntries(_)
SortEntries(s) ==
  IF s = <<>> THEN <<>>
  ELSE LET rest == SortEntries(Tail(s))
           e == Head(s)
           k == Cardinality({i \in DOMAIN rest : KeyBefore(rest[i], e)})
       IN SubSeq(rest, 1, k) \o <<e>> \o SubSeq(rest, k + 1, Len(rest))

\* since_ts: Optional[int] = None
NoSince == -1

\* the three filters of cmd_changes; NULL stands for an option not given
Passes(e, since_ts, agent_filter, task_filter) ==
  /\ since_ts = NoSince \/ ~(e.ts < since_ts)
  /\ agent_filter = NULL \/ e.agent = agent_filter
  /\ task_filter = NULL \/ e.task = task_filter

NoChanges == [seen |-> <<>>, since |-> NoSince, agent |-> NULL, task |-> NULL,
              invalid |-> 0, out |-> <<>>, outcome |-> "none"]

\* `hydra changes [--since S] [--agent A] [--task T]`: reads the file as it
\* is, without the lock of the writers
CmdChanges(since_ts, agent_filter, task_filter) ==
  LET read == ReadJournalEntries(jfile)
      filtered == SelectSeq(read.entries,
                    LAMBDA e : Passes(e, since_ts, agent_filter, task_filter))
  IN
  /\ changes' = [seen |-> jfile, since |-> since_ts, agent |-> agent_filter,
                 task |-> task_filter, invalid |-> read.invalid,
                 out |-> SortEntries(filtered), outcome |-> "ok"]
  /\ UNCHANGED <<locks, writer, proc, live, tmuxAvailable, clock,
                 branches, dirs, tree, head, journal, snap, git, adm,
                 jfile, flock, app>>

\* ------------------------------------------------------- the repository
\* git status --porcelain shows an unmerged path with a two-letter code.
\* cmd_merge looks for the lines starting with "UU ", "AA " or "DD ";
\* a path changed on one side and deleted on the other shows as "UD" or
\* "DU", one added on one side only as "AU" or "UA".
CodesLookedFor == {"UU", "AA", "DD"}
UnmergedCodes == {"UU", "UD"}

\* The trunk: the number of commits merges have put on it; the worktree that
\* has it checked out ("none": no worktree has) with the process that made
\* that worktree for its own use; the unmerged paths of a merge that stopped,
\* and whether MERGE_HEAD is there.  The agents: per branch its commits since
\* the merge base, each as the set of files that differ from the merge base
\* once it is made, the workspaces with uncommitted changes and those with a
\* revert in progress.
FreshRepo ==
  [head |-> 0, wt |-> "clean", temp |-> NoProc, unmerged |-> {}, mhead |-> FALSE,
   log |-> [o \in Owners |-> <<>>], dirty |-> {}, reverting |-> {}]

\* the files at commit number k of the branch; number 0 is the merge base
TreeAt(r, o, k) == IF k < 1 THEN {} ELSE r.log[o][k]

\* _list_changed_files: git diff --name-only <merge base>..<branch>
Ahead(r, o) == TreeAt(r, o, Len(r.log[o]))

\* git reset --hard HEAD
ResetHard(r) == [r EXCEPT !.wt = "clean", !.unmerged = {}, !.mhead = FALSE]

AbortMergeNoFallback(r) == IF r.mhead THEN ResetHard(r) ELSE r

\* _abort_merge: git merge --abort, which fails without MERGE_HEAD (after a
\* squash merge there is none), then git reset --hard HEAD
AbortMerge(r) == IF r.mhead THEN ResetHard(r) ELSE ResetHard(r)

\* _tmux_session_name(agent, task)
AgentSession(o) == "hydra-" \o o[1] \o "-" \o o[2]

\* ------------------------------------------------------------- cmd_merge
IdleMerge ==
  [pc |-> "idle", cmd |-> "none", agent |-> "", task |-> "", squash |-> FALSE,
   created |-> FALSE, pre |-> 0, to |-> 0, status |-> {}, outcome |-> "none",
   listed |-> {}, more |-> 0, sha |-> 0]

MergeFree(p) == mrg[p].pc \in {"idle", "done"}

\* main(): a command returns its status, a HydraError gives 2
ExitStatus(outcome) ==
  CASE outcome \in {"merged", "aborted", "nothing", "reverted"} -> 0
    [] outcome = "conflict" -> 1
    [] OTHER -> 2

\* the `finally` of cmd_merge: a trunk worktree the command made itself is
\* removed by git worktree remove --force, whatever is in it
MergeFinally(r, me) ==
  IF me.created
  THEN [r EXCEPT !.wt = "none", !.temp = NoProc, !.unmerged = {}, !.mhead = FALSE]
  ELSE r

\* what the caller of a finished merge or rollback sees
Ended(me, outcome, listed, more, sha) ==
  [me EXCEPT !.pc = "done", !.outcome = outcome, !.listed = listed,
             !.more = more, !.sha = sha]

\* everything a merge or a rollback never touches
beside ==
  <<writer, proc, tmuxAvailable, clock, tree, head, journal, snap, jrn, adm>>

\* `hydra merge <agent> --task <task> [--squash] [--abort]` up to the trunk
\* worktree: --abort only runs _abort_merge there; otherwise the branch must
\* exist, and without a worktree on trunk one is added for this command.
MergeStart(p, o, squash, abort) ==
  LET me == [IdleMerge EXCEPT !.cmd = IF abort THEN "abort" ELSE "merge",
                              !.agent = o[1], !.task = o[2],
                              !.squash = squash, !.pre = repo.head]
  IN /\ MergeFree(p)
     /\ repo.head < MaxTrunk
     /\ IF abort
        THEN IF repo.wt = "none"
             THEN /\ mrg' = [mrg EXCEPT ![p] = Ended(me, "error", {}, 0, 0)]
                  /\ UNCHANGED repo
             ELSE /\ repo' = AbortMerge(repo)
                  /\ mrg' = [mrg EXCEPT ![p] = Ended(me, "aborted", {}, 0, 0)]
        ELSE IF o \notin branches
             THEN /\ mrg' = [mrg EXCEPT ![p] = Ended(me, "error", {}, 0, 0)]
                  /\ UNCHANGED repo
             ELSE IF repo.wt = "none"
                  THEN \E git_fails \in BOOLEAN :
                         IF git_fails
                         THEN /\ mrg' = [mrg EXCEPT
                                   ![p] = Ended(me, "error", {}, 0, 0)]
                              /\ UNCHANGED repo
                         ELSE /\ repo' = [repo EXCEPT !.wt = "clean", !.temp = p]
                              /\ mrg' = [mrg EXCEPT
                                   ![p] = [me EXCEPT !.pc = "preflight",
                                                     !.created = TRUE]]
                  ELSE /\ mrg' = [mrg EXCEPT
                            ![p] = [me EXCEPT !.pc = "preflight"]]
                       /\ UNCHANGED repo
     /\ UNCHANGED <<locks, live, branches, dirs, beside>>

\* The checks on the two worktrees: the trunk worktree is on trunk and
\* _ensure_worktree_clean passes there (untracked files allowed), and in the
\* agent's workspace if that exists (nothing allowed).
MergePreflight(p) ==
  LET me == mrg[p]
      o == <<me.agent, me.task>>
  IN /\ me.pc = "preflight"
     /\ IF repo.wt # "clean" \/ (o \in dirs /\ o \in repo.dirty)
        THEN /\ mrg' = [mrg EXCEPT ![p] = Ended(me, "error", {}, 0, 0)]
             /\ repo' = MergeFinally(repo, me)
        ELSE /\ mrg' = [mrg EXCEPT ![p].pc = "locks"]
             /\ UNCHANGED repo
     /\ UNCHANGED <<locks, live, branches, dirs, beside>>

\* the error message names conflicts[:50] and counts the rest
MergeReportLimit == 50

MergeLocksUnchecked(p) ==
  /\ mrg[p].pc = "locks"
  /\ mrg' = [mrg EXCEPT ![p].pc = "git"]
  /\ UNCHANGED <<locks, repo, live, branches, dirs, beside>>

\* changed = _list_changed_files(trunk, branch); if there are any, inside
\* `with conn:` the dead locks are cleaned up and every changed file with a
\* row of another (agent, task) is a conflict.  The HydraError leaves the
\* `with` by a rollback, a pass without conflicts by a commit.
MergeLocks(p) ==
  LET me == mrg[p]
      o == <<me.agent, me.task>>
      changed == Ahead(repo, o)
      cleaned == CleanupAll(locks, CleanupStart(locks))
      conflicts == AcquireConflicts(cleaned, changed, o[1], o[2])
      cfiles == {r.file : r \in conflicts}
      listed == FirstN(cfiles, MergeReportLimit)
  IN /\ me.pc = "locks"
     /\ IF changed = {}
        THEN /\ mrg' = [mrg EXCEPT ![p].pc = "git"]
             /\ UNCHANGED <<locks, repo>>
        ELSE /\ writer = NoProc
             /\ IF conflicts # {}
                THEN /\ mrg' = [mrg EXCEPT ![p] =
                          Ended(me, "error",
                                {Entry(r.file, r.agent, r.task) :
                                   r \in {c \in conflicts : c.file \in listed}},
                                Cardinality(cfiles) - Cardinality(listed), 0)]
                     /\ repo' = MergeFinally(repo, me)
                     /\ UNCHANGED locks
                ELSE /\ locks' = cleaned
                     /\ mrg' = [mrg EXCEPT ![p].pc = "git"]
                     /\ UNCHANGED repo
     /\ UNCHANGED <<live, branches, dirs, beside>>

\* the unmerged paths a stopped merge can leave: some of the changed files,
\* each with a code
Unmergeds(changed) ==
  {u \in SUBSET (changed \X UnmergedCodes) :
     u # {} /\ \A x, y \in u : x[1] = y[1] => x = y}

\* has_conflicts and conflict_files: the status lines with one of the three
\* codes
ConflictFiles(r) == {x[1] : x \in {y \in r.unmerged : y[2] \in CodesLookedFor}}

\* After a git merge that returned non-zero: unmerged paths with one of the
\* three codes are printed and the command returns 1, leaving the worktree
\* as it is; anything else is aborted and raised.
MergeStopped(p, r) ==
  LET me == mrg[p]
  IN IF ConflictFiles(r) # {}
     THEN /\ mrg' = [mrg EXCEPT ![p] =
               Ended([me EXCEPT !.status = r.unmerged], "conflict",
                     ConflictFiles(r), 0, 0)]
          /\ repo' = MergeFinally(r, me)
     ELSE /\ mrg' = [mrg EXCEPT ![p] =
               Ended([me EXCEPT !.status = r.unmerged], "error", {}, 0, 0)]
          /\ repo' = MergeFinally(AbortMerge(r), me)

\* git merge --squash <branch> or git merge --no-ff --no-edit <branch> in the
\* trunk worktree.  Git refuses in a worktree that is not clean; otherwise
\* the merge goes through (--no-ff commits it, --squash stages it), stops at
\* unmerged paths, or fails for another reason.
MergeGit(p) ==
  LET me == mrg[p]
      o == <<me.agent, me.task>>
      changed == Ahead(repo, o)
  IN /\ me.pc = "git"
     /\ IF repo.wt = "none"
        THEN /\ mrg' = [mrg EXCEPT ![p] = Ended(me, "error", {}, 0, 0)]
             /\ UNCHANGED repo
        ELSE IF repo.wt # "clean"
        THEN MergeStopped(p, repo)
        ELSE \E how \in {"merged", "unmerged", "fails"} :
               CASE how = "merged" ->
                      IF me.squash
                      THEN /\ repo' = [repo EXCEPT
                                !.wt = IF changed = {} THEN "clean" ELSE "staged"]
                           /\ mrg' = [mrg EXCEPT ![p].pc = "commit"]
                      ELSE /\ repo' = MergeFinally(
                                [repo EXCEPT
                                   !.head = IF changed = {} THEN @ ELSE @ + 1,
                                   !.log[o] = <<>>], me)
                           /\ mrg' = [mrg EXCEPT
                                ![p].pc = "session",
                                ![p].sha = IF changed = {} THEN repo.head
                                           ELSE repo.head + 1]
                 [] how = "unmerged" ->
                      /\ changed # {}
                      /\ \E u \in Unmergeds(changed) :
                           MergeStopped(p, [repo EXCEPT !.wt = "unmerged",
                                                        !.unmerged = u,
                                                        !.mhead = ~me.squash])
                 [] how = "fails" -> MergeStopped(p, repo)
     /\ UNCHANGED <<locks, live, branches, dirs, beside>>

\* --squash: if git diff --cached names anything, git commit through
\* _run(check=True), which raises when the commit fails; then
\* merged_sha = git rev-parse HEAD
MergeCommit(p) ==
  LET me == mrg[p]
  IN /\ me.pc = "commit"
     /\ IF repo.wt \in {"staged", "unmerged"}
        THEN \E commit_fails \in BOOLEAN :
               IF commit_fails \/ repo.wt = "unmerged"
               THEN /\ mrg' = [mrg EXCEPT ![p] = Ended(me, "error", {}, 0, 0)]
                    /\ repo' = MergeFinally(repo, me)
               ELSE /\ repo' = MergeFinally(
                         [repo EXCEPT !.wt = "clean", !.head = @ + 1], me)
                    /\ mrg' = [mrg EXCEPT ![p].pc = "session",
                                          ![p].sha = repo.head + 1]
        ELSE /\ repo' = MergeFinally(repo, me)
             /\ mrg' = [mrg EXCEPT ![p].pc = "session", ![p].sha = repo.head]
     /\ UNCHANGED <<locks, live, branches, dirs, beside>>

\* if _tmux_session_exists(session):
MergeHasSession(p) ==
  LET me == mrg[p]
  IN /\ me.pc = "session"
     /\ mrg' = [mrg EXCEPT ![p].pc =
          IF TmuxSessionExists(AgentSession(<<me.agent, me.task>>))
          THEN "kill" ELSE "release"]
     /\ UNCHANGED <<locks, repo, live, branches, dirs, beside>>

\* _tmux(["kill-session", "-t", session]) through _run(check=True): tmux
\* fails on a session that is not there, and the HydraError ends the command
MergeKill(p) ==
  LET me == mrg[p]
      session == AgentSession(<<me.agent, me.task>>)
  IN /\ me.pc = "kill"
     /\ IF TmuxSessionExists(session)
        THEN /\ live' = live \ {session}
             /\ mrg' = [mrg EXCEPT ![p].pc = "release"]
        ELSE /\ mrg' = [mrg EXCEPT ![p] = Ended(me, "error", {}, 0, me.sha)]
             /\ UNCHANGED live
     /\ UNCHANGED <<locks, repo, branches, dirs, beside>>

\* with _connect_db(hydra_dir) as conn: _release_locks(conn, agent, task)
MergeRelease(p) ==
  LET me == mrg[p]
  IN /\ me.pc = "release"
     /\ writer = NoProc
     /\ locks' = SqlDeleteOwner(locks, me.agent, me.task)
     /\ mrg' = [mrg EXCEPT ![p].pc = "remove"]
     /\ UNCHANGED <<repo, live, branches, dirs, beside>>

\* git worktree remove --force of the agent's workspace and git branch -D,
\* both with check=False: a failure is a warning.  Git does not delete a
\* branch that a worktree has checked out.
MergeRemove(p) ==
  LET me == mrg[p]
      o == <<me.agent, me.task>>
  IN /\ me.pc = "remove"
     /\ \E remove_fails \in BOOLEAN :
          /\ dirs' = IF remove_fails THEN dirs ELSE dirs \ {o}
          /\ branches' = IF o \in dirs' THEN branches ELSE branches \ {o}
          /\ repo' = IF o \in dirs' THEN repo
                     ELSE [repo EXCEPT !.log[o] = <<>>, !.dirty = @ \ {o}]
     /\ mrg' = [mrg EXCEPT ![p] = Ended(me, "merged", {}, 0, me.sha)]
     /\ UNCHANGED <<locks, live, beside>>

\* ---------------------------------------------------------- cmd_rollback
\* --to resolved to a commit: the number of a commit of the branch (0 is the
\* merge base, the highest is the head), or a commit that is no ancestor
NotAncestor == -1
ToCommits == {NotAncestor} \cup (0..(MaxCommits + 1))

\* --to as given: HEAD~k (HEAD is HEAD~0), or the name of a commit
HeadRef(k) == [base |-> "HEAD", k |-> k]
ShaRef(n) == [base |-> "sha", k |-> n]
ToRefs == {HeadRef(k) : k \in 0..(MaxCommits + 1)} \cup {ShaRef(n) : n \in ToCommits}

HeadishKept(ref) == ref

\* _rewrite_headish_for_branch: HEAD becomes the branch, HEAD~k the branch~k
RewriteHeadishForBranch(ref) ==
  IF ref.base = "HEAD" THEN [ref EXCEPT !.base = "branch"] ELSE ref

\* git rev-parse --verify found no such commit
Unresolved == -2

\* _resolve_commit, run in the project root: <branch>~k counts back from the
\* head of the branch and does not go behind the first commit of the
\* repository, here the merge base; HEAD~k counts back from what the root has
\* checked out.
ResolveCommit(r, o, ref) ==
  CASE ref.base = "sha" -> ref.k
    [] ref.base = "branch" ->
         IF ref.k <= Len(r.log[o]) THEN Len(r.log[o]) - ref.k ELSE Unresolved
    [] OTHER ->
         IF r.wt = "none" THEN NotAncestor
         ELSE IF ref.k > r.head THEN Unresolved
         ELSE IF ref.k = r.head THEN 0 ELSE NotAncestor

\* git revert --no-commit stopped at a conflict in the workspace of o
RevertStopped(r, o) ==
  [r EXCEPT !.dirty = @ \cup {o}, !.reverting = @ \cup {o}]

AbortRevertSkipped(r, o) == r

\* _abort_revert: git revert --abort, or else git reset --hard HEAD
AbortRevert(r, o) ==
  [r EXCEPT !.dirty = @ \ {o}, !.reverting = @ \ {o}]

\* the worktree the rollback works in exists
RollbackWorktree(me) == me.created \/ <<me.agent, me.task>> \in dirs

RollbackStartUnchecked(p, o, to) ==
  LET me == [IdleMerge EXCEPT !.cmd = "rollback", !.agent = o[1],
                              !.task = o[2], !.to = to,
                              !.pre = Len(repo.log[o])]
  IN /\ MergeFree(p)
     /\ to <= Len(repo.log[o])
     /\ Len(repo.log[o]) <= MaxCommits
     /\ mrg' = [mrg EXCEPT ![p] = [me EXCEPT !.pc = "rb_check"]]
     /\ UNCHANGED <<locks, repo, live, branches, dirs, beside>>

\* `hydra rollback <agent> --task <task> --to <ref>` up to its worktree: the
\* branch must exist and the commit be an ancestor of it (git merge-base
\* --is-ancestor); the agent's workspace is used, or a worktree is added for
\* this command.
RollbackStart(p, o, to) ==
  LET me == [IdleMerge EXCEPT !.cmd = "rollback", !.agent = o[1],
                              !.task = o[2], !.to = to,
                              !.pre = Len(repo.log[o])]
  IN /\ MergeFree(p)
     /\ to <= Len(repo.log[o])
     /\ Len(repo.log[o]) <= MaxCommits
     /\ IF o \notin branches \/ to = NotAncestor
        THEN mrg' = [mrg EXCEPT ![p] = Ended(me, "error", {}, 0, 0)]
        ELSE IF o \in dirs
        THEN mrg' = [mrg EXCEPT ![p] = [me EXCEPT !.pc = "rb_check"]]
        ELSE \E git_fails \in BOOLEAN :
               mrg' = [mrg EXCEPT ![p] =
                 IF git_fails THEN Ended(me, "error", {}, 0, 0)
                 ELSE [me EXCEPT !.pc = "rb_check", !.created = TRUE]]
     /\ UNCHANGED <<locks, repo, live, branches, dirs, beside>>

\* `hydra rollback` from --to as it is given on the command line
RollbackFrom(p, o, ref) ==
  LET to == ResolveCommit(repo, o, RewriteHeadishForBranch(ref))
      me == [IdleMerge EXCEPT !.cmd = "rollback", !.agent = o[1],
                              !.task = o[2], !.to = to,
                              !.pre = Len(repo.log[o])]
  IN IF o \in branches /\ to = Unresolved
     THEN /\ MergeFree(p)
          /\ Len(repo.log[o]) <= MaxCommits
          /\ mrg' = [mrg EXCEPT ![p] = Ended(me, "error", {}, 0, 0)]
          /\ UNCHANGED <<locks, repo, live, branches, dirs, beside>>
     ELSE RollbackStart(p, o, to)

\* _ensure_worktree_clean(allow_untracked=False), then
\* count = git rev-list --count <commit>..HEAD; count <= 0 prints
\* "Nothing to rollback" and returns 0
RollbackCheck(p) ==
  LET me == mrg[p]
      o == <<me.agent, me.task>>
      count == Len(repo.log[o]) - me.to
  IN /\ me.pc = "rb_check"
     /\ mrg' = [mrg EXCEPT ![p] =
          IF ~RollbackWorktree(me) \/ (~me.created /\ o \in repo.dirty)
          THEN Ended(me, "error", {}, 0, 0)
          ELSE IF count <= 0
          THEN Ended(me, "nothing", {}, 0, 0)
          ELSE [me EXCEPT !.pc = "rb_revert"]]
     /\ UNCHANGED <<locks, repo, live, branches, dirs, beside>>

\* git revert --no-commit <commit>..HEAD, aborted and raised if it fails;
\* then git commit through _run(check=True) and the new head is printed
RollbackRevert(p) ==
  LET me == mrg[p]
      o == <<me.agent, me.task>>
  IN /\ me.pc = "rb_revert"
     /\ \E how \in {"reverted", "revert fails", "commit fails"} :
          IF ~RollbackWorktree(me) \/ me.to > Len(repo.log[o])
          THEN /\ mrg' = [mrg EXCEPT ![p] = Ended(me, "error", {}, 0, 0)]
               /\ UNCHANGED repo
          ELSE IF how = "revert fails"
          THEN /\ mrg' = [mrg EXCEPT ![p] =
                    Ended(me, "revert conflict", {}, 0, 0)]
               /\ repo' = IF me.created THEN repo
                          ELSE AbortRevert(RevertStopped(repo, o), o)
          ELSE IF how = "commit fails"
          THEN /\ mrg' = [mrg EXCEPT ![p] = Ended(me, "error", {}, 0, 0)]
               /\ repo' = IF me.created THEN repo
                          ELSE [repo EXCEPT !.dirty = @ \cup {o}]
          ELSE /\ mrg' = [mrg EXCEPT ![p] =
                    Ended(me, "reverted", {}, 0, Len(repo.log[o]) + 1)]
               /\ repo' = [repo EXCEPT
                    !.log[o] = Append(@, TreeAt(repo, o, me.to))]
     /\ UNCHANGED <<locks, live, branches, dirs, beside>>

\* ------------------------------------------------------- the agents' work
\* the agent commits a change of a file on its branch
AgentCommits(o, f) ==
  /\ o \in dirs /\ o \in branches
  /\ Len(repo.log[o]) < MaxCommits
  /\ repo' = [repo EXCEPT !.log[o] = Append(@, Ahead(repo, o) \cup {f}),
                          !.dirty = @ \ {o}]
  /\ UNCHANGED <<locks, live, branches, dirs, mrg, beside>>

\* the agent edits a file of its workspace and has not committed it
AgentEdits(o) ==
  /\ o \in dirs
  /\ o \notin repo.dirty
  /\ repo' = [repo EXCEPT !.dirty = @ \cup {o}]
  /\ UNCHANGED <<locks, live, branches, dirs, mrg, beside>>

\* somebody checks another branch out in the project root, or trunk again,
\* while no merge is running
CheckoutOther ==
  /\ \A p \in Procs : MergeFree(p)
  /\ repo.wt = "clean" /\ repo.temp = NoProc
  /\ repo' = [repo EXCEPT !.wt = "none"]
  /\ UNCHANGED <<locks, live, branches, dirs, mrg, beside>>

CheckoutTrunk ==
  /\ \A p \in Procs : MergeFree(p)
  /\ repo.wt = "none"
  /\ repo' = [repo EXCEPT !.wt = "clean"]
  /\ UNCHANGED <<locks, live, branches, dirs, mrg, beside>>

\* somebody changes a tracked file in the trunk worktree and does not commit
\* it, while no merge is running
TrunkEdits ==
  /\ \A p \in Procs : MergeFree(p)
  /\ repo.wt = "clean"
  /\ repo' = [repo EXCEPT !.wt = "edited"]
  /\ UNCHANGED <<locks, live, branches, dirs, mrg, beside>>

\* ----------------------------------------------------------- cmd_locks_list
\* `hydra locks list`: _cleanup_dead_locks, then the rows are printed; the
\* connection commits when the with block is left
LocksList ==
  /\ writer = NoProc
  /\ locks' = CleanupAll(locks, CleanupStart(locks))
  /\ listing' = locks'
  /\ UNCHANGED <<writer, proc, live, tmuxAvailable, clock, branches, dirs,
                 tree, head, journal, snap, jrn, git, taskdir, mk, val, dry>>

\* ------------------------------------------------- agent open --dry-run
\* the next agent open of p is given --dry-run, or is not
Asks(p, dry_run) ==
  /\ Free(p)
  /\ dry' = IF dry_run THEN dry \cup {p} ELSE dry \ {p}
  /\ dry' # dry
  /\ UNCHANGED <<locks, writer, proc, live, tmuxAvailable, clock, branches,
                 dirs, tree, head, journal, snap, jrn, git, taskdir, mk, val,
                 listing>>

\* The try block of cmd_agent_open under --dry-run: _create_worktree raises
\* on an existing directory or branch and prints the git command otherwise;
\* _start_tmux_window raises on an existing window and prints the tmux
\* command otherwise; the rows are not tagged.  The locks were taken before,
\* as without --dry-run.
DryCreate(p) ==
  LET o == <<proc[p].agent, proc[p].task>>
  IN /\ proc[p].pc = "open_create"
     /\ p \in dry
     /\ IF o \in dirs \/ o \in branches
        THEN OpenRaise(p)
        ELSE \E window_exists \in BOOLEAN :
               IF tmuxAvailable /\ window_exists
               THEN OpenRaise(p)
               ELSE Finish(p, Result(proc[p], "ok", {}, 0, 0))
     /\ UNCHANGED <<locks, writer, live, tmuxAvailable, clock, world>>

\* -------------------------------------------------- _validate_allow_pattern
\* An allow pattern is a string, here over four characters.
PatternChars == {".", "/", "\\", "a"}

StartsWith(str, pre) ==
  /\ Len(pre) <= Len(str)
  /\ SubSeq(str, 1, Len(pre)) = pre

\* `pre in str`
Contains(str, pre) ==
  \E i \in 1..(Len(str) - Len(pre) + 1) :
    SubSeq(str, i, i + Len(pre) - 1) = pre

\* os.path.isabs on a POSIX system
IsAbs(pattern) == StartsWith(pattern, <<"/">>)

\* pattern.replace("\\", "/")
Norm(pattern) ==
  [i \in 1..Len(pattern) |-> IF pattern[i] = "\\" THEN "/" ELSE pattern[i]]

RECURSIVE LStrip(_, _)
\* str.lstrip(chars)
LStrip(str, chars) ==
  IF str # <<>> /\ Head(str) \in chars THEN LStrip(Tail(str), chars) ELSE str

\* norm.startswith("../") or "/../" in norm or norm == ".."
Escapes(norm) ==
  \/ StartsWith(norm, <<".", ".", "/">>)
  \/ Contains(norm, <<"/", ".", ".", "/">>)
  \/ norm = <<".", ".">>

\* what _validate_allow_pattern does: it raises, or returns norm.lstrip("./")
ValidateAllowPattern(pattern) ==
  IF pattern = <<>> \/ IsAbs(pattern) \/ Escapes(Norm(pattern))
  THEN [raised |-> TRUE, pattern |-> <<>>]
  ELSE [raised |-> FALSE, pattern |-> LStrip(Norm(pattern), {".", "/"})]

NotValidated == [given |-> <<>>, raised |-> FALSE, pattern |-> <<>>, n |-> 0]

\* _expand_allow, _path_is_allowed or _create_task validates a pattern of an
\* allow list; nothing but the answer comes of it
Validate(pattern) ==
  /\ val' = [given |-> pattern,
             raised |-> ValidateAllowPattern(pattern).raised,
             pattern |-> ValidateAllowPattern(pattern).pattern,
             n |-> 1]
  /\ UNCHANGED <<locks, writer, proc, live, tmuxAvailable, clock, branches,
                 dirs, tree, head, journal, snap, jrn, git, taskdir, mk,
                 listing, dry>>

\* ------------------------------------------------------------ _create_task
\* A task id is t<created>, or t<created><nn> with nn from 01: the time and
\* the suffix (0: none).
NoId == <<>>
AutoId(ts, i) == <<ts, i>>

\* for i in range(0, 1000)
AllocateLimit == 1000

\* _task_path(tasks_dir, task_id).exists()
TaskExists(files, id) == \E f \in files : f.id = id

RECURSIVE FirstFree(_, _, _)
\* the loop that allocates an id: the first of t<ts>, t<ts>01, t<ts>02, ...
\* without a file; none among the first 1000 raises
FirstFree(files, ts, i) ==
  IF ~TaskExists(files, AutoId(ts, i)) THEN AutoId(ts, i)
  ELSE IF i + 1 >= AllocateLimit THEN NoId
  ELSE FirstFree(files, ts, i + 1)

\* a file that has been opened for writing and not been written yet
EmptyContent == [form |-> "empty"]

\* json.dumps(task): id, title, allow, created
Descriptor(id, title, allow, created) ==
  [form |-> "task", id |-> id, title |-> title, allow |-> allow,
   created |-> created]

\* the directory with the file of this id replaced or added
WithFile(files, id, content) ==
  {f \in files : f.id # id} \cup {[id |-> id, content |-> content]}

IdleMk ==
  [pc |-> "idle", cmd |-> "none", id |-> NoId, title |-> "", allow |-> <<>>,
   created |-> 0, outcome |-> "none"]

MkFree(p) == mk[p].pc \in {"idle", "done"}

MkEnded(me, outcome) == [me EXCEPT !.pc = "done", !.outcome = outcome]

\* `hydra task new`: an empty allow list raises; the id is the explicit one
\* or the first free one for the current second
MkStart(p, title, allow, explicit_id) ==
  LET id == IF explicit_id # NoId THEN explicit_id
            ELSE FirstFree(taskdir, clock, 0)
      me == [IdleMk EXCEPT !.cmd = "new", !.id = id, !.title = title,
                           !.allow = allow, !.created = clock]
  IN /\ MkFree(p)
     /\ Cardinality(taskdir) < MaxTasks
     /\ mk' = [mk EXCEPT ![p] =
          IF allow = <<>> \/ id = NoId
          THEN MkEnded([me EXCEPT !.id = NoId], "HydraError")
          ELSE [me EXCEPT !.pc = "mk_exists"]]
     /\ UNCHANGED <<locks, writer, proc, live, tmuxAvailable, clock, branches,
                    dirs, tree, head, journal, snap, jrn, git, taskdir, val,
                    listing, dry>>

\* `if path.exists(): raise`, then the patterns of the allow list are
\* validated, each raising if it is not valid
MkExists(p) ==
  LET me == mk[p]
      checked == [i \in 1..Len(me.allow) |-> ValidateAllowPattern(me.allow[i])]
  IN /\ me.pc = "mk_exists"
     /\ mk' = [mk EXCEPT ![p] =
          IF TaskExists(taskdir, me.id)
             \/ \E i \in 1..Len(me.allow) : checked[i].raised
          THEN MkEnded(me, "HydraError")
          ELSE [me EXCEPT !.pc = "mk_open",
                          !.allow = [i \in 1..Len(me.allow) |-> checked[i].pattern]]]
     /\ UNCHANGED <<locks, writer, proc, live, tmuxAvailable, clock, branches,
                    dirs, tree, head, journal, snap, jrn, git, taskdir, val,
                    listing, dry>>

\* path.write_text(...) opens the file for writing, which creates or
\* truncates it,
MkOpen(p) ==
  /\ mk[p].pc = "mk_open"
  /\ taskdir' = WithFile(taskdir, mk[p].id, EmptyContent)
  /\ mk' = [mk EXCEPT ![p].pc = "mk_write"]
  /\ UNCHANGED <<locks, writer, proc, live, tmuxAvailable, clock, branches,
                 dirs, tree, head, journal, snap, jrn, git, val, listing, dry>>

\* and writes the descriptor; the id is printed
MkWrite(p) ==
  LET me == mk[p]
  IN /\ me.pc = "mk_write"
     /\ taskdir' = WithFile(taskdir, me.id,
                            Descriptor(me.id, me.title, me.allow, me.created))
     /\ mk' = [mk EXCEPT ![p] = MkEnded(me, "ok")]
     /\ UNCHANGED <<locks, writer, proc, live, tmuxAvailable, clock, branches,
                    dirs, tree, head, journal, snap, jrn, git, val, listing,
                    dry>>

\* `hydra task show <id>`: _load_task raises HydraError without the file and
\* parses it with json.loads otherwise, which raises json.JSONDecodeError on
\* a file that is empty
TaskShow(p, id) ==
  LET me == [IdleMk EXCEPT !.cmd = "show", !.id = id]
      found == {f \in taskdir : f.id = id}
  IN /\ MkFree(p)
     /\ mk' = [mk EXCEPT ![p] =
          IF found = {} THEN MkEnded(me, "HydraError")
          ELSE IF \E f \in found : f.content = EmptyContent
          THEN MkEnded(me, "JSONDecodeError")
          ELSE MkEnded(me, "ok")]
     /\ UNCHANGED <<locks, writer, proc, live, tmuxAvailable, clock, branches,
                    dirs, tree, head, journal, snap, jrn, git, taskdir, val,
                    listing, dry>>

\* ------------------------------------------------------------------- main
\* main returns what the command returns (0, or 1 from a merge that stopped
\* at a conflict), 2 on HydraError and 130 on KeyboardInterrupt; any other
\* exception leaves main, and the interpreter prints the traceback and exits
\* with 1
Main(outcome) ==
  CASE outcome = "ok" -> 0
    [] outcome = "conflict" -> 1
    [] outcome = "HydraError" -> 2
    [] outcome = "KeyboardInterrupt" -> 130
    [] OTHER -> 1

\* ------------------------------------------------------------ the start
\* _connect_db on a fresh .hydra directory: CREATE TABLE IF NOT EXISTS locks;
\* tmux is installed, no session has been started yet; no agent workspace
\* has been opened and nothing has been committed or journalled.
Init ==
  /\ locks = {}
  /\ writer = NoProc
  /\ proc = [p \in Procs |-> IdleProc]
  /\ live = {}
  /\ tmuxAvailable = TRUE
  /\ clock = 0
  /\ branches = {}
  /\ dirs = {}
  /\ tree = [x \in SnapPaths |-> Clean]
  /\ head = 0
  /\ journal = <<>>
  /\ snap = IdleSnap
  /\ jfile = <<>>
  /\ flock = NoProc
  /\ app = [p \in Procs |-> IdleApp]
  /\ changes = NoChanges
  /\ repo = FreshRepo
  /\ mrg = [p \in Procs |-> IdleMerge]
  /\ taskdir = {}
  /\ mk = [p \in Procs |-> IdleMk]
  /\ val = NotValidated
  /\ listing = {}
  /\ dry = {}

\* ------------------------------------------------------------ environment
KillAutocommit(p) ==
  /\ ~Free(p)
  /\ writer' = IF writer = p THEN NoProc ELSE writer
  /\ locks' = IF writer = p THEN proc[p].work ELSE locks
  /\ proc' = [proc EXCEPT ![p] = IdleProc]
  /\ UNCHANGED <<live, tmuxAvailable, clock, world>>

\* The process is terminated (SIGKILL, power loss) anywhere in a command:
\* SQLite discards the uncommitted transaction and frees the write lock; the
\* process reports nothing.
Kill(p) ==
  /\ ~Free(p)
  /\ writer' = IF writer = p THEN NoProc ELSE writer
  /\ proc' = [proc EXCEPT ![p] = IdleProc]
  /\ UNCHANGED <<locks, live, tmuxAvailable, clock, world>>

SessionDies(s) ==
  /\ s \in live
  /\ live' = live \ {s}
  /\ UNCHANGED <<locks, writer, proc, tmuxAvailable, clock, world>>

\* _ensure_tmux_session: tmux new-session -d -s <name>
SessionStarts(s) ==
  /\ tmuxAvailable
  /\ s \notin live
  /\ live' = live \cup {s}
  /\ UNCHANGED <<locks, writer, proc, tmuxAvailable, clock, world>>

\* tmux is installed or removed; the PATH lookup does not change in the middle
\* of a cleanup pass.
TmuxToggle ==
  /\ \A p \in Procs : proc[p].pc \notin {"acq_gc", "gc_scan"}
  /\ tmuxAvailable' = ~tmuxAvailable
  /\ UNCHANGED <<locks, writer, proc, live, clock, world>>

Tick ==
  /\ clock < MaxTime
  /\ clock' = clock + 1
  /\ UNCHANGED <<locks, writer, proc, live, tmuxAvailable, world>>

\* ------------------------------------------------------------ the system
Requests == SUBSET SmallFiles
OneSession == {"s1"}

\* Every operation of the lock store, run by two processes on behalf of two
\* (agent, task) pairs, with one tmux session coming and going and either
\* process terminated at any point.
Next ==
  \/ \E p \in Procs, o \in OwnersOfA1, fs \in Requests, now \in NowValues :
       AcquireBegin(p, o, fs, now)
  \/ \E p \in Procs : AcquireCleanup(p)
  \/ \E p \in Procs : AcquireCheck(p)
  \/ \E p \in Procs : AcquireWrite(p)
  \/ \E p \in Procs : AcquireCommit(p)
  \/ \E p \in Procs, o \in OwnersOfA1 : ReleaseBegin(p, o)
  \/ \E p \in Procs : ReleaseDelete(p)
  \/ \E p \in Procs : ReleaseCommit(p)
  \/ \E p \in Procs, o \in OwnersOfA1, s \in OneSession : SetSessionBegin(p, o, s)
  \/ \E p \in Procs : SetSessionUpdate(p)
  \/ \E p \in Procs : SetSessionCommit(p)
  \/ \E p \in Procs : LocksCleanupBegin(p)
  \/ \E p \in Procs : LocksCleanupProbe(p)
  \/ \E p \in Procs : LocksCleanupCommit(p)
  \/ \E p \in Procs, o \in OwnersOfA1, fs \in Requests, skip \in BOOLEAN :
       HookEarly(p, o, fs, skip)
  \/ \E p \in Procs, o \in OwnersOfA1, fs \in Requests, now \in NowValues :
       HookBegin(p, o, fs, now)
  \/ \E p \in Procs : HookScan(p)
  \/ \E p \in Procs : HookDecide(p)
  \/ \E p \in Procs : Kill(p)
  \/ \E s \in OneSession : SessionDies(s)
  \/ \E s \in OneSession : SessionStarts(s)

Spec == Init /\ [][Next]_vars

\* ------------------------------------------------------------ C1
\* C1: in every reachable state each file path has at most one row in the
\* lock table, hence at most one owning (agent, task).
OneRowPerFile ==
  \A r1, r2 \in locks : r1.file = r2.file => r1 = r2

\* two paths are locked, by two different owners
OneRowPerFileWitness ==
  \E r1, r2 \in locks :
    /\ r1.file # r2.file
    /\ <<r1.agent, r1.task>> # <<r2.agent, r2.task>>

\* ------------------------------------------------------------ C2
\* the rows that the cleanup pass of p's own transaction has not removed
Surviving(p) == {r \in locks : r.tmux_session \notin proc[p].dead}

\* p's acquire call returns or raises in this step
AcquireEnds(p) ==
  /\ proc[p].cmd = "acquire"
  /\ proc[p].pc # "done"
  /\ proc'[p].pc = "done"

\* after the call's own cleanup, some requested file has a row of another
\* (agent, task)
HeldByOther(p) ==
  \E r \in Surviving(p) :
    /\ r.file \in proc[p].files
    /\ <<r.agent, r.task>> # <<proc[p].agent, proc[p].task>>

OwnsAll(tbl, fs, a, t) ==
  \A f \in fs : \E r \in tbl : r.file = f /\ r.agent = a /\ r.task = t

\* C2: acquire is all-or-nothing.  If a requested file is owned by a
\* different (agent, task) when the call checks (after its own cleanup of
\* dead sessions), the call fails and the lock table after it is the table
\* before it; otherwise every requested file ends up owned by the requester.
AcquireAllOrNothing ==
  [][\A p \in Procs :
       AcquireEnds(p) =>
         IF HeldByOther(p)
         THEN proc'[p].outcome = "conflict" /\ locks' = locks
         ELSE /\ proc'[p].outcome = "ok"
              /\ OwnsAll(locks', proc[p].files, proc[p].agent, proc[p].task)]_vars

\* an acquire has failed on a conflict, and the table still holds the row of
\* another owner it ran into and a row tagged with a session that is gone
AcquireAllOrNothingWitness ==
  \E p \in Procs :
    /\ proc[p].cmd = "acquire"
    /\ proc[p].outcome = "conflict"
    /\ \E e \in proc[p].listed, r \in locks :
         r.file = e.file /\ r.agent = e.agent /\ r.task = e.task
    /\ \E r \in locks : r.tmux_session \in Sessions \ live

\* ------------------------------------------------------------ C5
\* p's release call returns in this step
ReleaseEnds(p) ==
  /\ proc[p].cmd = "release"
  /\ proc[p].pc # "done"
  /\ proc'[p].pc = "done"

\* C5: release(agent, task) deletes exactly the rows owned by that (agent,
\* task), returns their number, and leaves every other row unchanged.
ReleaseExact ==
  [][\A p \in Procs :
       ReleaseEnds(p) =>
         /\ locks' = {r \in locks :
                        <<r.agent, r.task>> # <<proc[p].agent, proc[p].task>>}
         /\ proc'[p].count =
              Cardinality({r \in locks :
                 <<r.agent, r.task>> = <<proc[p].agent, proc[p].task>>})]_vars

\* a release has returned 1 and a row of another owner is still there
ReleaseExactWitness ==
  \E p \in Procs :
    /\ proc[p].cmd = "release"
    /\ proc[p].outcome = "ok"
    /\ proc[p].count = 1
    /\ locks # {}

\* ------------------------------------------------------------ C9
\* what the complete operation of p makes of the committed table
FullEffect(p) ==
  LET me == proc[p]
      mine(r) == r.agent = me.agent /\ r.task = me.task
  IN CASE me.cmd = "acquire" ->
            {r \in Surviving(p) : r.file \notin me.files}
              \cup {Row(f, me.agent, me.task, me.now, NULL) : f \in me.files}
       [] me.cmd = "release" -> {r \in locks : ~mine(r)}
       [] me.cmd = "setSession" ->
            {IF mine(r) THEN [r EXCEPT !.tmux_session = me.session] ELSE r
               : r \in locks}
       [] me.cmd = "gc" -> Surviving(p)
       [] me.cmd = "hook" ->
            locks \cup {Row(f, me.agent, me.task, me.now, EMPTY) :
                          f \in {g \in me.files : \A r \in locks : r.file # g}}
       [] OTHER -> locks

\* C9: whatever happens to a process, termination included, the lock table
\* the other processes observe changes only from the table before an
\* operation to the table after the complete operation.
NeverPartial ==
  [][locks' # locks =>
       \E p \in Procs :
         /\ writer = p
         /\ proc'[p].pc = "done"
         /\ locks' = FullEffect(p)]_vars

\* a process can be terminated right now, in the middle of the insert loop
\* of an acquire of two paths, with one row written and one to go
NeverPartialWitness ==
  \E p \in Procs :
    /\ proc[p].pc = "acq_write"
    /\ Cardinality(proc[p].files) = 2
    /\ Cardinality(proc[p].todo) = 1
    /\ proc[p].work # locks
    /\ ENABLED Kill(p)

\* ------------------------------------------------------------ C3
\* Two processes each issue one acquire, for two different (agent, task)
\* pairs, on a table in which every path is free.  The requests range from
\* single paths to sets longer than an error message lists.
ManyFiles == 1..(AcquireReportLimit + 1)
RaceRequests == {{1}, {2}, {1, 2}, {2, 3}, ManyFiles}
RaceOwners(p) == IF p = "p1" THEN {<<"a1", "t1">>} ELSE {<<"a1", "t2">>, <<"a2", "t1">>}

RaceAcquire(p, o, fs) ==
  /\ proc[p].pc = "idle"
  /\ AcquireBegin(p, o, fs, 0)

NextRace ==
  \/ \E p \in Procs, fs \in RaceRequests : \E o \in RaceOwners(p) :
       RaceAcquire(p, o, fs)
  \/ \E p \in Procs : AcquireCheck(p)
  \/ \E p \in Procs : AcquireWrite(p)
  \/ \E p \in Procs : AcquireCommit(p)

SpecRace == Init /\ [][NextRace]_vars

\* the entries of a complete conflict list: the requested files with a row
HeldEntries(p) ==
  {Entry(r.file, r.agent, r.task) : r \in {x \in locks : x.file \in proc[p].files}}

\* C3: of two concurrent acquires by distinct (agent, task) pairs on free
\* paths, both succeed when the file sets are disjoint; when they overlap
\* exactly one succeeds with all its files, and the other fails with none
\* of its files granted and a conflict list that is the complete set of its
\* requested files held by the winner.
RaceOutcome ==
  [][\A p \in Procs :
       AcquireEnds(p) =>
         IF HeldEntries(p) = {}
         THEN /\ proc'[p].outcome = "ok"
              /\ locks' = locks \cup
                   {Row(f, proc[p].agent, proc[p].task, 0, NULL) : f \in proc[p].files}
         ELSE /\ proc'[p].outcome = "conflict"
              /\ locks' = locks
              /\ proc'[p].listed = HeldEntries(p)
              /\ proc'[p].more = 0]_vars

\* ------------------------------------------------------------ C4
\* One process acquires and tags locks for two (agent, task) pairs while the
\* clock advances and the tmux session comes and goes.
One == {"p1"}

NextClock ==
  \/ \E p \in One, o \in OwnersOfA1, fs \in Requests, now \in NowValues :
       AcquireBegin(p, o, fs, now)
  \/ \E p \in One : AcquireCleanup(p)
  \/ \E p \in One : AcquireCheck(p)
  \/ \E p \in One : AcquireWrite(p)
  \/ \E p \in One : AcquireCommit(p)
  \/ \E p \in One, o \in OwnersOfA1, s \in OneSession : SetSessionBegin(p, o, s)
  \/ \E p \in One : SetSessionUpdate(p)
  \/ \E p \in One : SetSessionCommit(p)
  \/ \E s \in OneSession : SessionDies(s)
  \/ \E s \in OneSession : SessionStarts(s)
  \/ Tick

SpecClock == Init /\ [][NextClock]_vars

\* the requester of p's acquire already owns every path it asks for
Reacquires(p) ==
  /\ proc[p].files # {}
  /\ OwnsAll(locks, proc[p].files, proc[p].agent, proc[p].task)

Pairs(tbl) == {<<r.file, r.agent, r.task>> : r \in tbl}

\* C4 as stated: a re-acquire by the owner succeeds, leaves the set of
\* (path, owner) pairs of the table unchanged, and changes nothing but the
\* timestamps of the requested rows.
ReacquireOnlyTimestamps ==
  [][\A p \in Procs :
       AcquireEnds(p) /\ Reacquires(p) =>
         /\ proc'[p].outcome = "ok"
         /\ Pairs(locks') = Pairs(locks)
         /\ locks' = {IF r.file \in proc[p].files
                      THEN [r EXCEPT !.locked_at = proc[p].now] ELSE r
                        : r \in locks}]_vars

\* C4 as the code has it: a re-acquire by the owner succeeds without a
\* conflict; the rows its own cleanup pass does not remove keep their
\* (path, owner) pairs, and each requested row gets the call's timestamp
\* and the call's session tag (NULL), every other surviving row unchanged.
ReacquireRefreshes ==
  [][\A p \in Procs :
       AcquireEnds(p) /\ Reacquires(p) =>
         /\ proc'[p].outcome = "ok"
         /\ Pairs(locks') =
              Pairs(Surviving(p)) \cup
                {<<f, proc[p].agent, proc[p].task>> : f \in proc[p].files}
         /\ locks' = {IF r.file \in proc[p].files
                      THEN [r EXCEPT !.locked_at = proc[p].now,
                                     !.tmux_session = NULL]
                      ELSE r
                        : r \in {x \in locks : x.file \in proc[p].files}
                                  \cup Surviving(p)}]_vars

\* the owner is about to commit the re-acquire of a path whose row carries
\* an older timestamp and a session tag
ReacquireRefreshesWitness ==
  \E p \in Procs :
    /\ proc[p].pc = "acq_write"
    /\ proc[p].todo = {}
    /\ Reacquires(p)
    /\ \E r \in locks :
         /\ r.file \in proc[p].files
         /\ r.locked_at < proc[p].now
         /\ r.tmux_session \in Sessions
    /\ proc[p].work # locks

\* ------------------------------------------------------------ C6
\* p1 works for (a1, t1) only; p2 works for the two other owners.
HandoverOwners(p) ==
  IF p = "p1" THEN {<<"a1", "t1">>} ELSE {<<"a1", "t2">>, <<"a2", "t1">>}

NextHandover ==
  \/ \E p \in Procs : \E o \in HandoverOwners(p), fs \in Requests :
       AcquireBegin(p, o, fs, 0)
  \/ \E p \in Procs : AcquireCheck(p)
  \/ \E p \in Procs : AcquireWrite(p)
  \/ \E p \in Procs : AcquireCommit(p)
  \/ \E p \in Procs : \E o \in HandoverOwners(p) : ReleaseBegin(p, o)
  \/ \E p \in Procs : ReleaseDelete(p)
  \/ \E p \in Procs : ReleaseCommit(p)

SpecHandover == Init /\ [][NextHandover]_vars

\* the last thing (a1, t1) did is a completed release
Released(q) == proc[q].pc = "done" /\ proc[q].cmd = "release"

\* a requested file of p has a row of an owner that is neither the requester
\* nor (a1, t1)
HeldByThird(p) ==
  \E r \in locks :
    /\ r.file \in proc[p].files
    /\ <<r.agent, r.task>> \notin {<<proc[p].agent, proc[p].task>>, <<"a1", "t1">>}

\* C6: once release(a1, t1) has completed, an acquire by a different
\* (agent, task) succeeds on any files that no third owner holds, the files
\* (a1, t1) held before the release included.
ReleaseThenAcquire ==
  [][\A p \in Procs \ {"p1"} :
       AcquireEnds(p) /\ Released("p1") /\ ~HeldByThird(p) =>
         /\ proc'[p].outcome = "ok"
         /\ OwnsAll(locks', proc[p].files, proc[p].agent, proc[p].task)]_vars

\* (a1, t1) has released both files and another owner is about to commit its
\* acquire of both
ReleaseThenAcquireWitness ==
  /\ Released("p1")
  /\ proc["p1"].count = Cardinality(SmallFiles)
  /\ proc["p2"].pc = "acq_write"
  /\ proc["p2"].todo = {}
  /\ proc["p2"].files = SmallFiles
  /\ locks = {}
  /\ OwnsAll(proc["p2"].work, SmallFiles, proc["p2"].agent, proc["p2"].task)

\* ------------------------------------------------------------ C7
\* One process works for two owners with two tmux sessions; tmux itself may
\* be missing.
NextGc ==
  \/ \E p \in One, o \in OwnersOfA1, fs \in Requests : AcquireBegin(p, o, fs, 0)
  \/ \E p \in One : AcquireCleanup(p)
  \/ \E p \in One : AcquireCheck(p)
  \/ \E p \in One : AcquireWrite(p)
  \/ \E p \in One : AcquireCommit(p)
  \/ \E p \in One, o \in OwnersOfA1, s \in Sessions : SetSessionBegin(p, o, s)
  \/ \E p \in One : SetSessionUpdate(p)
  \/ \E p \in One : SetSessionCommit(p)
  \/ \E p \in One : LocksCleanupBegin(p)
  \/ \E p \in One : LocksCleanupProbe(p)
  \/ \E p \in One : LocksCleanupCommit(p)
  \/ \E s \in Sessions : SessionDies(s)
  \/ \E s \in Sessions : SessionStarts(s)
  \/ TmuxToggle

SpecGc == Init /\ [][NextGc]_vars

\* p's cleanup command commits in this step
GcEnds(p) ==
  /\ proc[p].cmd = "gc"
  /\ proc[p].pc # "done"
  /\ proc'[p].pc = "done"

GcNoOracleWitness ==
  \E p \in Procs :
    /\ proc[p].pc = "gc_scan"
    /\ ~tmuxAvailable
    /\ proc[p].work = locks
    /\ \E r \in locks : r.tmux_session \in Sessions \ live

\* ------------------------------------------------------------ C8
\* The agents of the project live in the windows of the one project session:
\* their commits run the hook while that session is up.
HostedHookEarly(p, o, staged) ==
  /\ OneSession \subseteq live
  /\ HookEarly(p, o, staged, FALSE)

HostedHookBegin(p, o, staged) ==
  /\ OneSession \subseteq live
  /\ HookBegin(p, o, staged, 0)

NextRecovery ==
  \/ \E p \in One, o \in OwnersOfA1, fs \in Requests : AcquireBegin(p, o, fs, 0)
  \/ \E p \in One : AcquireCleanup(p)
  \/ \E p \in One : AcquireCheck(p)
  \/ \E p \in One : AcquireWrite(p)
  \/ \E p \in One : AcquireCommit(p)
  \/ \E p \in One, o \in OwnersOfA1, s \in OneSession : SetSessionBegin(p, o, s)
  \/ \E p \in One : SetSessionUpdate(p)
  \/ \E p \in One : SetSessionCommit(p)
  \/ \E p \in One, o \in OwnersOfA1, staged \in Requests :
       HostedHookEarly(p, o, staged)
  \/ \E p \in One, o \in OwnersOfA1, staged \in Requests :
       HostedHookBegin(p, o, staged)
  \/ \E p \in One : HookScan(p)
  \/ \E p \in One : HookDecide(p)
  \/ \E p \in One : LocksCleanupBegin(p)
  \/ \E p \in One : LocksCleanupProbe(p)
  \/ \E p \in One : LocksCleanupCommit(p)
  \/ \E s \in OneSession : SessionDies(s)
  \/ \E s \in OneSession : SessionStarts(s)

SpecRecovery == Init /\ [][NextRecovery]_vars

\* C8: when the project session is dead and a maintenance cleanup completes
\* with tmux available, the locks of the agents it hosted are gone: the only
\* rows left are those of an openWorkspace that has not tagged them yet
\* (NULL tag).  Rows taken by commit-time enforcement carry the empty tag.
HostDeathRecovered ==
  [][\A p \in Procs :
       GcEnds(p) /\ tmuxAvailable /\ live = {} /\ proc[p].todo = {}
         /\ (\A r \in locks : r.tmux_session \in Sessions
                                 => r.tmux_session \in proc[p].dead) =>
         \A r \in locks' : r.tmux_session = NULL]_vars

\* under the same conditions the rows tagged with the session are gone
HostDeathRecoversTagged ==
  [][\A p \in Procs :
       GcEnds(p) /\ tmuxAvailable /\ live = {} /\ proc[p].todo = {}
         /\ (\A r \in locks : r.tmux_session \in Sessions
                                 => r.tmux_session \in proc[p].dead) =>
         \A r \in locks' : r.tmux_session \notin Sessions]_vars

\* ------------------------------------------------------------ C10
\* One process commits, acquires and releases for the three owners.
NextHook ==
  \/ \E p \in One, o \in Owners, staged \in Requests, skip \in BOOLEAN :
       HookEarly(p, o, staged, skip)
  \/ \E p \in One, o \in Owners, staged \in Requests : HookBegin(p, o, staged, 0)
  \/ \E p \in One : HookScan(p)
  \/ \E p \in One : HookDecide(p)
  \/ \E p \in One, o \in Owners, fs \in Requests : AcquireBegin(p, o, fs, 0)
  \/ \E p \in One : AcquireCheck(p)
  \/ \E p \in One : AcquireWrite(p)
  \/ \E p \in One : AcquireCommit(p)
  \/ \E p \in One, o \in Owners : ReleaseBegin(p, o)
  \/ \E p \in One : ReleaseDelete(p)
  \/ \E p \in One : ReleaseCommit(p)

SpecHook == Init /\ [][NextHook]_vars

\* the hook of p, run for owner o on the staged paths with enforcement on,
\* returns or raises in this step
HookEnds(p, o, staged) ==
  \/ HookEarly(p, o, staged, FALSE)
  \/ /\ proc[p].cmd = "hook"
     /\ proc[p].pc = "hook_scan"
     /\ <<proc[p].agent, proc[p].task>> = o
     /\ proc[p].files = staged
     /\ proc'[p].pc = "done"

\* the staged paths outside the task's patterns or locked by another owner
Offending(o, staged) ==
  NotAllowed(staged, o[2]) \cup
    {f \in staged : \E r \in locks : r.file = f /\ OtherOwner(r, o[1], o[2])}

\* the commit passes iff no staged path offends
HookAllowsIff ==
  [][\A p \in Procs, o \in Owners, staged \in Requests :
       HookEnds(p, o, staged) =>
         (proc'[p].outcome = "allowed" <=> Offending(o, staged) = {})]_vars

\* C10: the commit is allowed iff every staged path is allowed by the
\* task's patterns and none has a lock row of another (agent, task); a
\* blocked commit reports every offending path.
HookEnforces ==
  [][\A p \in Procs, o \in Owners, staged \in Requests :
       HookEnds(p, o, staged) =>
         /\ proc'[p].outcome = "allowed" <=> Offending(o, staged) = {}
         /\ Offending(o, staged) # {} =>
              {e.file : e \in proc'[p].listed} = Offending(o, staged)]_vars

\* ------------------------------------------------------------ C11
\* Two processes open and close the workspaces of two (agent, task) pairs of
\* one agent, with and without locks, while the project session comes and
\* goes.
NextWorkspace ==
  \/ \E p \in Procs, o \in OwnersOfA1 : OpenLock(p, o)
  \/ \E p \in Procs, o \in OwnersOfA1 : OpenNoLock(p, o)
  \/ \E p \in Procs : OpenCreate(p)
  \/ \E p \in Procs : OpenWindow(p)
  \/ \E p \in Procs : OpenUndo(p)
  \/ \E p \in Procs, o \in OwnersOfA1, remove \in BOOLEAN : CloseRelease(p, o, remove)
  \/ \E p \in Procs : CloseRemove(p)
  \/ \E s \in OneSession : SessionDies(s)
  \/ \E s \in OneSession : SessionStarts(s)
  \/ TmuxToggle

SpecWorkspace == Init /\ [][NextWorkspace]_vars

\* p's command c returns or raises in this step
Ends(p, c) ==
  /\ proc[p].cmd = c
  /\ proc[p].pc # "done"
  /\ proc'[p].pc = "done"

\* C11: when an open with --lock fails after its acquisition has succeeded,
\* no row of its (agent, task) on the paths it locked is left in the table
\* once the error propagates.
FailedOpenLeavesNoLocks ==
  [][\A p \in Procs :
       Ends(p, "open") /\ proc[p].opt /\ proc'[p].outcome = "error" =>
         \A r \in RowsOf(locks', proc[p].agent, proc[p].task) :
           r.file \notin proc[p].files]_vars

\* an open that holds its locks has failed and is about to release them
FailedOpenLeavesNoLocksWitness ==
  \E p \in Procs :
    /\ proc[p].pc = "open_undo"
    /\ proc[p].files # {}
    /\ OwnsAll(locks, proc[p].files, proc[p].agent, proc[p].task)

\* ------------------------------------------------------------ C12
\* C12: creating the workspace fails whenever the branch or the directory
\* of (agent, task) already exists, and then creates neither; a branch that
\* comes into existence did not exist before, and opens and closes never
\* delete one, so a branch is created at most once.
CreateOnlyOnce ==
  [][\A p \in Procs :
       LET o == <<proc[p].agent, proc[p].task>>
       IN proc[p].pc = "open_create" /\ proc'[p].pc # "open_create" =>
            /\ (o \in branches \/ o \in dirs) =>
                 /\ proc'[p].pc = "open_undo" \/ proc'[p].outcome = "error"
                 /\ branches' = branches
                 /\ dirs' = dirs
            /\ branches \subseteq branches'
            /\ \A x \in branches' \ branches : x = o /\ x \notin dirs]_vars

\* an open is about to release its locks after it ran into the branch of a
\* workspace whose directory has been removed
CreateOnlyOnceWitness ==
  \E p \in Procs :
    /\ proc[p].pc = "open_undo"
    /\ <<proc[p].agent, proc[p].task>> \in branches \ dirs

\* ------------------------------------------------------------ C13
\* C13: when an open or a close completes, the branch of its (agent, task)
\* exists iff its directory exists.
BranchIffDirectory ==
  [][\A p \in Procs :
       (Ends(p, "open") \/ Ends(p, "close")) =>
         (<<proc[p].agent, proc[p].task>> \in branches'
            <=> <<proc[p].agent, proc[p].task>> \in dirs')]_vars

\* the same for opens alone
BranchIffDirectoryAfterOpen ==
  [][\A p \in Procs :
       Ends(p, "open") /\ branches = dirs => branches' = dirs']_vars

\* ------------------------------------------------------------ C14
\* C14: a close with --remove-worktree whose removal of the directory fails
\* still completes successfully and returns the number of locks of
\* (agent, task) it has released.
CloseSurvivesRemoveFailure ==
  [][\A p \in Procs :
       Ends(p, "close") /\ proc[p].pc = "close_remove" /\ dirs' = dirs =>
         /\ proc'[p].outcome = "ok"
         /\ proc'[p].count = proc[p].count]_vars

\* the locks of (agent, task) are gone before the removal is tried
CloseReleasesFirst ==
  [][\A p \in Procs :
       proc[p].pc # "close_remove" /\ proc'[p].pc = "close_remove" =>
         RowsOf(locks', proc'[p].agent, proc'[p].task) = {}]_vars

\* ------------------------------------------------------------ C15
\* The workspace of (a1, t1) is opened; the agent writes, deletes and
\* discards while snapshots with every debounce and max-wait are taken and
\* the post-commit hook is run by hand.
NextSnapshot ==
  \/ \E p \in One : OpenNoLock(p, SnapOwner)
  \/ \E p \in One : OpenCreate(p)
  \/ \E p \in One : OpenWindow(p)
  \/ \E debounce \in Debounces, max_wait \in MaxWaits : SnapStart(debounce, max_wait)
  \/ SnapPoll
  \/ SnapSleep
  \/ SnapAdd
  \/ HookPostCommit(SnapOwner)
  \/ \E x \in SnapPaths : AgentWrites(x, "file")
  \/ AgentWrites("y", "dir")
  \/ AgentWrites("x", "gone")
  \/ \E x \in SnapPaths : AgentDiscards(x)
  \/ Pass

SpecSnapshot == Init /\ [][NextSnapshot]_vars

\* C15: a snapshot that finds the workspace without pending changes returns
\* "No changes", makes no commit and leaves the branch head, the journal and
\* the lock table as they were.
CleanSnapshotNoOp ==
  [][(\/ snap.pc \in {"idle", "done"} /\ snap'.pc = "done" /\ snap' # snap
      \/ snap.pc = "add" /\ snap'.pc = "done")
       /\ SnapOwner \in dirs /\ Changed(tree) = {} =>
         /\ snap'.outcome = "no changes"
         /\ head' = head
         /\ journal' = journal
         /\ locks' = locks
         /\ tree' = tree]_vars

\* after a commit the workspace is clean and the next snapshot has said so
CleanSnapshotNoOpWitness ==
  /\ snap.pc = "done"
  /\ snap.outcome = "no changes"
  /\ SnapOwner \in dirs
  /\ Changed(tree) = {}
  /\ head > 0

\* ------------------------------------------------------------ C16
\* C16: the debounce wait lets the commit go ahead only at a poll at which
\* every changed path was last modified at least debounce ago.
DebounceHolds ==
  [][snap.pc = "poll" /\ snap'.pc = "add" =>
       \A x \in SnapPaths :
         tree[x].st \in {"file", "dir"} => tree[x].age >= snap.debounce]_vars

\* the same for the rows that are regular files
DebounceHoldsForFiles ==
  [][snap.pc = "poll" /\ snap'.pc = "add" =>
       \A x \in SnapPaths :
         tree[x].st = "file" => tree[x].age >= snap.debounce]_vars

\* ------------------------------------------------------------ C17
\* some changed path was modified less than debounce ago
StillWriting == \E x \in SnapPaths :
                  tree[x].st \in {"file", "dir"} /\ tree[x].age < snap.debounce

\* C17: a poll that finds the newest modification younger than debounce
\* raises the timeout if max-wait has elapsed since the start, without a
\* commit, and goes on waiting otherwise.
TimeoutUnderWrites ==
  [][snap.pc = "poll" /\ snap'.pc # "poll" /\ StillWriting =>
       IF snap.elapsed >= snap.max_wait
       THEN snap'.pc = "done" /\ snap'.outcome = "timeout" /\ head' = head
       ELSE snap'.pc = "sleep"]_vars

\* the same when the young modification is one of a regular file
TimeoutUnderFileWrites ==
  [][snap.pc = "poll" /\ snap'.pc # "poll"
       /\ (\E x \in Statted(tree) : tree[x].age < snap.debounce) =>
       IF snap.elapsed >= snap.max_wait
       THEN snap'.pc = "done" /\ snap'.outcome = "timeout" /\ head' = head
       ELSE snap'.pc = "sleep"]_vars

\* ------------------------------------------------------------ C18
\* the wait loop runs whenever it can
SpecSnapshotFair ==
  SpecSnapshot /\ WF_vars(SnapPoll) /\ WF_vars(SnapSleep)

\* C18: the debounce wait always ends, with the workspace judged quiet or
\* clean or with the timeout.
WaitTerminates ==
  snap.pc \in {"poll", "sleep"} ~> snap.pc \notin {"poll", "sleep"}

\* the same for a finite max-wait
FiniteWaitTerminates ==
  (snap.pc \in {"poll", "sleep"} /\ snap.max_wait # Inf)
    ~> snap.pc \notin {"poll", "sleep"}

\* ------------------------------------------------------------ C19
\* C19: the commit of a snapshot is followed by exactly one new journal
\* record, which carries its commit id, agent and task.
CommitIsJournalled ==
  [][head' # head =>
       /\ Len(journal') = Len(journal) + 1
       /\ journal'[Len(journal')].sha = head'
       /\ journal'[Len(journal')].agent = SnapOwner[1]
       /\ journal'[Len(journal')].task = SnapOwner[2]]_vars

\* ------------------------------------------------------------ C20
\* C20: the journal only grows at its end: what it held before a step is a
\* prefix of what it holds after.
JournalAppendOnly ==
  [][/\ Len(journal) <= Len(journal')
     /\ \A i \in 1..Len(journal) : journal'[i] = journal[i]]_vars

\* two records written after two different commits
JournalAppendOnlyWitness ==
  /\ Len(journal) = 2
  /\ journal[1].sha # journal[2].sha

\* ------------------------------------------------------------ C21
\* the (agent, task) pairs whose commits are journalled
JournalOwners == {<<"a1", "t1">>, <<"a2", "t2">>}
ForeignTexts == {[form |-> f] : f \in ForeignForms}

\* Two processes run the post-commit hook again and again while the clock
\* advances, and other lines get into the file between the appends.
NextAppend ==
  \/ \E p \in Procs, o \in JournalOwners : AppendOpen(p, o)
  \/ \E p \in Procs : AppendFlock(p)
  \/ \E p \in Procs : AppendWrite(p)
  \/ \E p \in Procs : AppendUnlock(p)
  \/ \E text \in ForeignTexts : ForeignLine(text)
  \/ Tick

SpecAppend == Init /\ [][NextAppend]_vars

FileLines == SplitLines(jfile, <<>>)

\* the appends of p that have written their last byte
Appended(p) ==
  {k \in 0..(app[p].n - 1) :
     k < app[p].n - 1 \/ app[p].pc \in {"idle", "unlock"}}

\* the line is one record, all of it and nothing else
WholeLineOf(raw, sha) ==
  /\ Len(raw) = MaxParts
  /\ \A i \in 1..MaxParts : raw[i].of = raw[1].of /\ raw[i].part = i
  /\ raw[1].of.form = "dict"
  /\ raw[1].of.obj.sha = sha

Sinces == {NoSince} \cup (0..MaxTime)
NotRead == changes.outcome = "none"

\* The same writers, and the changes command reading the file at any moment
\* of their work, under any filters; a run is followed up to its first read.
NextJournal ==
  \/ NotRead /\ \E p \in Procs, o \in JournalOwners : AppendOpen(p, o)
  \/ NotRead /\ \E p \in Procs : AppendFlock(p)
  \/ NotRead /\ \E p \in Procs : AppendWrite(p)
  \/ NotRead /\ \E p \in Procs : AppendUnlock(p)
  \/ NotRead /\ \E text \in ForeignTexts : ForeignLine(text)
  \/ NotRead /\ Tick
  \/ \E since_ts \in Sinces, agent_filter \in {NULL, "a1"},
        task_filter \in {NULL, "t1"} :
       CmdChanges(since_ts, agent_filter, task_filter)

SpecJournal == Init /\ [][NextJournal]_vars

\* the line is read as an entry / is counted as invalid
WellFormed(raw) == ~IsBlank(raw) /\ IsObject(raw)
Malformed(raw) == ~IsBlank(raw) /\ ~IsObject(raw)

ChangesReorders ==
  /\ changes.outcome = "ok"
  /\ \E j1, j2 \in DOMAIN changes.out :
       j1 < j2 /\ changes.out[j1].index > changes.out[j2].index


\* ------------------------------------------------------------ C23
\* the task whose branch is merged and the task that holds locks in its way
Merged == <<"a1", "t2">>
Blocker == <<"a1", "t1">>

\* The blocker is opened with its locks and the merged task without, its
\* agent commits and edits, one process merges the branch into trunk and
\* another aborts merges, while the project session comes and goes and the
\* project root is switched from trunk and back.
NextMerge ==
  \/ \E p \in One : OpenLock(p, Blocker)
  \/ \E p \in One : OpenNoLock(p, Merged)
  \/ \E p \in One : OpenCreate(p)
  \/ \E p \in One : OpenWindow(p)
  \/ \E p \in One : OpenUndo(p)
  \/ \E f \in SmallFiles : AgentCommits(Merged, f)
  \/ AgentEdits(Merged)
  \/ \E p \in One, squash \in BOOLEAN : MergeStart(p, Merged, squash, FALSE)
  \/ \E p \in Procs \ One : MergeStart(p, Merged, FALSE, TRUE)
  \/ \E p \in One : MergePreflight(p)
  \/ \E p \in One : MergeLocks(p)
  \/ \E p \in One : MergeGit(p)
  \/ \E p \in One : MergeCommit(p)
  \/ \E p \in One : MergeHasSession(p)
  \/ \E p \in One : MergeRelease(p)
  \/ \E p \in One : MergeRemove(p)
  \/ CheckoutOther
  \/ CheckoutTrunk
  \/ SessionStarts(ProjectSession)
  \/ SessionDies(ProjectSession)

SpecMerge == Init /\ [][NextMerge]_vars

\* the rows a cleanup of dead locks leaves in the table
LiveRows ==
  {r \in locks : \/ r.tmux_session \in {NULL, EMPTY}
                 \/ ~tmuxAvailable
                 \/ r.tmux_session \in live}

\* a file changed on the branch p merges has a live row of another owner
MergeBlocked(p) ==
  \E r \in LiveRows :
    /\ r.file \in Ahead(repo, <<mrg[p].agent, mrg[p].task>>)
    /\ OtherOwner(r, mrg[p].agent, mrg[p].task)

\* the step leaves the repository and the lock table as they were when p's
\* merge began; a trunk worktree made for the merge is gone again
NothingMerged(p) ==
  /\ locks' = locks
  /\ branches' = branches
  /\ dirs' = dirs
  /\ repo'.head = mrg[p].pre
  /\ repo'.log = repo.log
  /\ repo'.dirty = repo.dirty
  /\ repo'.unmerged = repo.unmerged
  /\ repo'.mhead = repo.mhead
  /\ repo'.wt = IF mrg[p].created THEN "none" ELSE repo.wt

MergeStopsUnmerged(p) ==
  /\ mrg[p].pc = "git"
  /\ mrg'[p].pc = "done"
  /\ mrg'[p].status # {}

\* C24: a merge that stops at unmerged paths returns 1 and names them; the
\* stopped merge is still in the trunk worktree, and the agent's branch,
\* workspace and locks are as they were.
MergeConflictLeftInPlace ==
  [][\A p \in Procs :
       MergeStopsUnmerged(p) =>
         /\ ExitStatus(mrg'[p].outcome) = 1
         /\ mrg'[p].listed = {x[1] : x \in mrg'[p].status}
         /\ repo'.wt = "unmerged"
         /\ repo'.unmerged = mrg'[p].status
         /\ repo'.mhead = ~mrg[p].squash
         /\ branches' = branches /\ dirs' = dirs /\ locks' = locks]_vars

\* the same for a merge in a worktree that was there before it, stopped at
\* paths that all show one of the codes the command looks for
MergeConflictLeftInPlaceIfLookedFor ==
  [][\A p \in Procs :
       (/\ MergeStopsUnmerged(p)
        /\ ~mrg[p].created
        /\ \A x \in mrg'[p].status : x[2] \in CodesLookedFor) =>
         /\ ExitStatus(mrg'[p].outcome) = 1
         /\ mrg'[p].listed = {x[1] : x \in mrg'[p].status}
         /\ repo'.wt = "unmerged"
         /\ repo'.unmerged = mrg'[p].status
         /\ repo'.mhead = ~mrg[p].squash
         /\ branches' = branches /\ dirs' = dirs /\ locks' = locks]_vars

\* ------------------------------------------------------------ C25
\* q runs `merge --abort` in this step, after p's merge has returned 1 and
\* left its stopped merge in the trunk worktree
AbortsConflictOf(q, p) ==
  /\ mrg[p].outcome = "conflict"
  /\ repo.wt = "unmerged"
  /\ repo.unmerged = mrg[p].status
  /\ mrg'[q].cmd = "abort"
  /\ mrg'[q] # mrg[q]

\* C25: the abort of a merge that ended in a conflict leaves the trunk
\* worktree clean, with no merge in progress and no unmerged path, on the
\* commit trunk had when that merge began; the clean check of the next
\* merge passes there.
AbortRestoresTrunk ==
  [][\A p, q \in Procs :
       AbortsConflictOf(q, p) =>
         /\ ExitStatus(mrg'[q].outcome) = 0
         /\ repo'.wt = "clean"
         /\ repo'.unmerged = {}
         /\ ~repo'.mhead
         /\ repo'.head = mrg[p].pre]_vars

\* a squash merge that was left at its conflict in the project root has been
\* aborted
AbortRestoresTrunkWitness ==
  \E p, q \in Procs :
    /\ mrg[p].outcome = "conflict" /\ mrg[p].squash /\ ~mrg[p].created
    /\ mrg[q].outcome = "aborted"
    /\ repo.wt = "clean"
    /\ repo.head = mrg[p].pre

\* ------------------------------------------------------------ C27
\* p's merge ends in this step with an error raised after git merge was run
MergeFails(p) ==
  /\ mrg[p].pc \in {"git", "commit"}
  /\ mrg'[p].pc = "done"
  /\ mrg'[p].outcome = "error"

\* C27: a merge that fails after git merge was run, and not for a conflict,
\* reports its error with the trunk worktree clean (or removed again, if the
\* merge made it) on the commit trunk had before, and with the agent's
\* branch and locks in place.
MergeFailureRestoresTrunk ==
  [][\A p \in Procs :
       MergeFails(p) =>
         /\ ExitStatus(mrg'[p].outcome) = 2
         /\ repo'.wt = IF mrg[p].created THEN "none" ELSE "clean"
         /\ repo'.unmerged = {}
         /\ repo'.head = mrg[p].pre
         /\ branches' = branches /\ locks' = locks]_vars

\* the same for the failures of git merge itself
GitMergeFailureRestoresTrunk ==
  [][\A p \in Procs :
       (MergeFails(p) /\ mrg[p].pc = "git") =>
         /\ ExitStatus(mrg'[p].outcome) = 2
         /\ repo'.wt = IF mrg[p].created THEN "none" ELSE "clean"
         /\ repo'.unmerged = {}
         /\ repo'.head = mrg[p].pre
         /\ branches' = branches /\ locks' = locks]_vars

\* ------------------------------------------------------------ C26
\* A task is opened with its locks, its agent commits, a tmux session named
\* after the agent and the task comes and goes like the project session, and
\* one process merges the branch.
NextCleanup ==
  \/ \E p \in One : OpenLock(p, Merged)
  \/ \E p \in One : OpenCreate(p)
  \/ \E p \in One : OpenWindow(p)
  \/ \E p \in One : OpenUndo(p)
  \/ \E f \in SmallFiles : AgentCommits(Merged, f)
  \/ \E p \in One, squash \in BOOLEAN : MergeStart(p, Merged, squash, FALSE)
  \/ \E p \in One : MergePreflight(p)
  \/ \E p \in One : MergeLocks(p)
  \/ \E p \in One : MergeGit(p)
  \/ \E p \in One : MergeCommit(p)
  \/ \E p \in One : MergeHasSession(p)
  \/ \E p \in One : MergeKill(p)
  \/ \E p \in One : MergeRelease(p)
  \/ \E p \in One : MergeRemove(p)
  \/ \E s \in {ProjectSession, AgentSession(Merged)} : SessionStarts(s)
  \/ \E s \in {ProjectSession, AgentSession(Merged)} : SessionDies(s)

SpecCleanup == Init /\ [][NextCleanup]_vars

\* p's merge, whose result is on trunk, returns or raises in this step
CommittedMergeEnds(p) ==
  /\ mrg[p].pc \in {"session", "kill", "release", "remove"}
  /\ mrg'[p].pc = "done"

\* C26: a merge whose result is on trunk ends with no lock row of its
\* (agent, task) and without the agent's branch, whether or not the session
\* could be killed and the workspace removed.
CommittedMergeCleansUp ==
  [][\A p \in Procs :
       CommittedMergeEnds(p) =>
         /\ RowsOf(locks', mrg[p].agent, mrg[p].task) = {}
         /\ <<mrg[p].agent, mrg[p].task>> \notin branches']_vars

\* ------------------------------------------------------------ C28
\* Two tasks are opened, their agents commit, and two processes merge the
\* two branches into trunk at the same time.
NextMergeRace ==
  \/ \E p \in One, o \in {Blocker, Merged} : OpenNoLock(p, o)
  \/ \E p \in One : OpenCreate(p)
  \/ \E p \in One : OpenWindow(p)
  \/ \E o \in {Blocker, Merged} : AgentCommits(o, 1)
  \/ \E squash \in BOOLEAN : MergeStart("p1", Blocker, squash, FALSE)
  \/ \E squash \in BOOLEAN : MergeStart("p2", Merged, squash, FALSE)
  \/ \E p \in Procs : MergePreflight(p)
  \/ \E p \in Procs : MergeLocks(p)
  \/ \E p \in Procs : MergeGit(p)
  \/ \E p \in Procs : MergeCommit(p)
  \/ \E p \in Procs : MergeHasSession(p)
  \/ \E p \in Procs : MergeRelease(p)
  \/ \E p \in Procs : MergeRemove(p)

SpecMergeRace == Init /\ [][NextMergeRace]_vars

\* past the preflight checks and not yet past git merge and its commit
Merging(p) == mrg[p].pc \in {"git", "commit"}

\* C28: of two merges into the same trunk worktree at most one is ever past
\* its preflight checks and at its git merge.
OneMergeAtATime ==
  \A p, q \in Procs : p # q => ~(Merging(p) /\ Merging(q))

\* ------------------------------------------------------------ C29
\* A task is opened, its agent commits and edits, the workspace is closed
\* and removed, and one process rolls the branch back to any commit.
NextRollback ==
  \/ \E p \in One : OpenNoLock(p, Merged)
  \/ \E p \in One : OpenCreate(p)
  \/ \E p \in One : OpenWindow(p)
  \/ \E p \in One : CloseRelease(p, Merged, TRUE)
  \/ \E p \in One : CloseRemove(p)
  \/ \E f \in SmallFiles : AgentCommits(Merged, f)
  \/ AgentEdits(Merged)
  \/ \E p \in One, to \in ToCommits : RollbackStart(p, Merged, to)
  \/ \E p \in One : RollbackCheck(p)
  \/ \E p \in One : RollbackRevert(p)
  \/ SessionStarts(ProjectSession)

SpecRollback == Init /\ [][NextRollback]_vars

\* the worktrees added for a rollback that are there
RollbackWorktrees ==
  {p \in Procs : mrg[p].pc \in {"rb_check", "rb_revert"} /\ mrg[p].created}

\* p starts a rollback of an existing branch to a commit that is no ancestor
RollbackToStranger(p) ==
  /\ MergeFree(p)
  /\ mrg'[p] # mrg[p]
  /\ mrg'[p].cmd = "rollback"
  /\ mrg'[p].to = NotAncestor
  /\ <<mrg'[p].agent, mrg'[p].task>> \in branches

\* C29: a rollback to a commit that is not an ancestor of the agent's branch
\* ends at once with an error; the commits of the branch, the state of its
\* workspace and the worktrees are as before.
RollbackRejectsStranger ==
  [][\A p \in Procs :
       RollbackToStranger(p) =>
         /\ mrg'[p].pc = "done"
         /\ ExitStatus(mrg'[p].outcome) = 2
         /\ repo' = repo
         /\ branches' = branches
         /\ dirs' = dirs
         /\ RollbackWorktrees' = RollbackWorktrees]_vars

\* such a rollback of a branch with commits has been rejected
RollbackRejectsStrangerWitness ==
  \E p \in Procs :
    /\ mrg[p].cmd = "rollback"
    /\ mrg[p].to = NotAncestor
    /\ mrg[p].outcome = "error"
    /\ Merged \in branches
    /\ repo.log[Merged] # <<>>

\* ------------------------------------------------------------ C30
\* p's rollback is at its check, and its commit is the head of the branch
RollbackOfNothing(p) ==
  /\ mrg[p].pc = "rb_check"
  /\ mrg'[p] # mrg[p]
  /\ mrg[p].to = Len(repo.log[<<mrg[p].agent, mrg[p].task>>])

\* C30: a rollback to the head of the branch prints "Nothing to rollback"
\* and returns 0, and the branch has the commits it had.
RollbackOfNothingSucceeds ==
  [][\A p \in Procs :
       RollbackOfNothing(p) =>
         /\ mrg'[p].outcome = "nothing"
         /\ ExitStatus(mrg'[p].outcome) = 0
         /\ repo'.log = repo.log]_vars

\* the same in a worktree without uncommitted changes
RollbackOfNothingSucceedsIfClean ==
  [][\A p \in Procs :
       (/\ RollbackOfNothing(p)
        /\ RollbackWorktree(mrg[p])
        /\ (mrg[p].created \/ <<mrg[p].agent, mrg[p].task>> \notin repo.dirty)) =>
         /\ mrg'[p].outcome = "nothing"
         /\ ExitStatus(mrg'[p].outcome) = 0
         /\ repo'.log = repo.log]_vars


\* ------------------------------------------------------------ C31
\* As for C29, with --to given as HEAD~k or as the name of a commit.
NextRevert ==
  \/ \E p \in One : OpenNoLock(p, Merged)
  \/ \E p \in One : OpenCreate(p)
  \/ \E p \in One : OpenWindow(p)
  \/ \E p \in One : CloseRelease(p, Merged, TRUE)
  \/ \E p \in One : CloseRemove(p)
  \/ \E f \in SmallFiles : AgentCommits(Merged, f)
  \/ AgentEdits(Merged)
  \/ \E p \in One, ref \in ToRefs : RollbackFrom(p, Merged, ref)
  \/ \E p \in One : RollbackCheck(p)
  \/ \E p \in One : RollbackRevert(p)
  \/ SessionStarts(ProjectSession)

SpecRevert == Init /\ [][NextRevert]_vars

\* p's rollback makes its commit in this step
RollbackCommits(p) ==
  /\ mrg[p].pc = "rb_revert"
  /\ mrg'[p].outcome = "reverted"

RevertConflicts(p) ==
  /\ mrg[p].pc = "rb_revert"
  /\ mrg'[p].outcome = "revert conflict"

\* C32: when the revert of a rollback stops at a conflict the command fails
\* with the commits of the branch as they were, no revert in progress and no
\* uncommitted change in the agent's workspace.
RevertConflictAborted ==
  [][\A p \in Procs :
       RevertConflicts(p) =>
         LET o == <<mrg[p].agent, mrg[p].task>>
         IN /\ ExitStatus(mrg'[p].outcome) = 2
            /\ repo'.log = repo.log
            /\ o \in dirs' => o \notin repo'.reverting \cup repo'.dirty]_vars

\* the revert of a rollback in the agent's workspace has stopped at a conflict
RevertConflictAbortedWitness ==
  \E p \in Procs :
    /\ mrg[p].outcome = "revert conflict"
    /\ ~mrg[p].created
    /\ <<mrg[p].agent, mrg[p].task>> \in dirs

\* ------------------------------------------------------------ C33
\* Two processes create tasks with and without an explicit id, with and
\* without allow patterns, while time passes.
Titles == {"x", "y"}
AllowLists == {<<>>, << <<"a">> >>, << <<"a">>, <<".", ".">> >>}
ExplicitIds == {AutoId(0, 0), AutoId(1, 1)}

NextTask ==
  \/ \E p \in Procs, title \in Titles, allow \in AllowLists,
        id \in ExplicitIds \cup {NoId} : MkStart(p, title, allow, id)
  \/ \E p \in Procs : MkExists(p)
  \/ \E p \in Procs : MkOpen(p)
  \/ \E p \in Procs : MkWrite(p)
  \/ \E p \in Procs, id \in ExplicitIds : TaskShow(p, id)
  \/ Tick

SpecTask == Init /\ [][NextTask]_vars

\* the descriptors that have been written
Descriptors == {f \in taskdir : f.content # EmptyContent}

\* C33: a createTask that fails writes nothing; a descriptor, once written,
\* stays as it is; and no two createTask calls have succeeded with the same
\* id.
TaskCreatedOnce ==
  [][/\ \A p \in Procs :
          (mk'[p] # mk[p] /\ mk'[p].outcome = "HydraError") => taskdir' = taskdir
     /\ \A f \in Descriptors : f \in taskdir'
     /\ \A p, q \in Procs :
          (p # q /\ mk'[p].outcome = "ok" /\ mk'[q].outcome = "ok") =>
            mk'[p].id # mk'[q].id]_vars

\* the same as long as one process only has created tasks
TaskCreatedOnceAlone ==
  [][(\E p \in Procs : \A q \in Procs \ {p} : mk[q] = IdleMk /\ mk'[q] = IdleMk) =>
       /\ \A p \in Procs :
            (mk'[p] # mk[p] /\ mk'[p].outcome = "HydraError") => taskdir' = taskdir
       /\ \A f \in Descriptors : f \in taskdir']_vars

\* ------------------------------------------------------------ C34
\* C34: a task command exits with 0 when it succeeds and with 2 when it
\* fails; it never exits with 1, the status of a merge left at a conflict.
ExitOneReserved ==
  \A p \in Procs :
    mk[p].pc = "done" =>
      /\ Main(mk[p].outcome) # 1
      /\ mk[p].outcome = "ok" <=> Main(mk[p].outcome) = 0
      /\ mk[p].outcome # "ok" <=> Main(mk[p].outcome) = 2

\* the same for the errors the commands raise themselves
ExitOfHydraError ==
  \A p \in Procs :
    (mk[p].pc = "done" /\ mk[p].outcome \in {"ok", "HydraError"}) =>
      Main(mk[p].outcome) = IF mk[p].outcome = "ok" THEN 0 ELSE 2

\* ------------------------------------------------------------ C35
\* the allow patterns of up to MaxPattern characters
RECURSIVE Patterns(_)
Patterns(n) ==
  IF n = 0 THEN {<<>>}
  ELSE Patterns(n - 1) \cup
       {Append(q, c) : q \in {x \in Patterns(n - 1) : Len(x) = n - 1},
                       c \in PatternChars}

NextValidate == \E pattern \in Patterns(MaxPattern) : Validate(pattern)

SpecValidate == Init /\ [][NextValidate]_vars

\* the segments of a path between its slashes
RECURSIVE Segments(_)
Segments(norm) ==
  IF \A i \in 1..Len(norm) : norm[i] # "/" THEN {norm}
  ELSE LET i == CHOOSE k \in 1..Len(norm) :
                  norm[k] = "/" /\ \A j \in 1..(k - 1) : norm[j] # "/"
       IN {SubSeq(norm, 1, i - 1)} \cup Segments(SubSeq(norm, i + 1, Len(norm)))

\* C35: a pattern that is empty, absolute, or has a segment ".." once its
\* backslashes are slashes is rejected when it is validated.
TraversalRejected ==
  val.n = 1 =>
    ((\/ val.given = <<>>
      \/ IsAbs(val.given)
      \/ <<".", ".">> \in Segments(Norm(val.given))) => val.raised)

\* the same for ".." at the start or in the middle of the pattern
InnerTraversalRejected ==
  val.n = 1 =>
    ((\/ val.given = <<>>
      \/ IsAbs(val.given)
      \/ \E i \in 1..(Len(val.given) - 1) :
           /\ <<".", ".">> \in Segments(SubSeq(Norm(val.given), 1, i - 1))
           /\ Norm(val.given)[i] = "/") => val.raised)

\* ------------------------------------------------------------ C36
\* One caller lists the locks between its commands and opens a workspace,
\* with or without --lock and --dry-run; the project session is started at
\* some time.
NextReopen ==
  \/ (\A p \in Procs : Free(p)) /\ LocksList
  \/ \E p \in One, dry_run \in BOOLEAN : Asks(p, dry_run)
  \/ \E p \in One, o \in {Blocker, Merged} : listing = locks /\ OpenLock(p, o)
  \/ \E p \in One : listing = locks /\ OpenNoLock(p, Merged)
  \/ \E p \in One : p \notin dry /\ OpenCreate(p)
  \/ \E p \in One : DryCreate(p)
  \/ \E p \in One : OpenWindow(p)
  \/ \E p \in One : OpenUndo(p)
  \/ SessionStarts(ProjectSession)

SpecReopen == Init /\ [][NextReopen]_vars

\* p's agent open returns or raises in this step, having started earlier
OpenEnds(p) ==
  /\ proc[p].cmd = "open"
  /\ ~Free(p)
  /\ proc'[p].pc = "done"

\* C36: when an agent open with --dry-run is over, the lock table is the one
\* listed before it, and the branches and workspace directories are those
\* there were.
DryRunChangesNothing ==
  [][\A p \in Procs :
       (OpenEnds(p) /\ p \in dry) =>
         /\ locks' = listing
         /\ branches' = branches
         /\ dirs' = dirs]_vars

\* the same without --lock
DryRunChangesNothingUnlocked ==
  [][\A p \in Procs :
       (OpenEnds(p) /\ p \in dry /\ ~proc[p].opt) =>
         /\ locks' = listing
         /\ branches' = branches
         /\ dirs' = dirs]_vars

\* ------------------------------------------------------------ C37
\* One caller lists the locks between its commands and opens a workspace
\* with --lock, or closes one; the project session is started at some time.
NextRetry ==
  \/ (\A p \in Procs : Free(p)) /\ LocksList
  \/ \E p \in One, o \in {Blocker, Merged} : listing = locks /\ OpenLock(p, o)
  \/ \E p \in One : OpenCreate(p)
  \/ \E p \in One : OpenWindow(p)
  \/ \E p \in One : OpenUndo(p)
  \/ \E p \in One, o \in {Blocker, Merged} : CloseRelease(p, o, TRUE)
  \/ \E p \in One : CloseRemove(p)
  \/ SessionStarts(ProjectSession)

SpecRetry == Init /\ [][NextRetry]_vars

\* C37: when an agent open with --lock fails after it has taken its locks,
\* the lock table is the one listed before the call.
FailedOpenRestoresLocks ==
  [][\A p \in Procs :
       (OpenEnds(p) /\ proc[p].opt /\ proc'[p].outcome = "error") =>
         locks' = listing]_vars

\* the same when (agent, task) held no lock before the call
FailedOpenRestoresLocksOfNewcomer ==
  [][\A p \in Procs :
       (/\ OpenEnds(p) /\ proc[p].opt /\ proc'[p].outcome = "error"
        /\ RowsOf(listing, proc[p].agent, proc[p].task) = {}) =>
         locks' = listing]_vars

\* ------------------------------------------------------------ C38
\* As for C23, with one branch, and with merge --abort at any time and
\* uncommitted changes made in the trunk worktree between the merges.
NextAbort ==
  \/ \E p \in One : OpenNoLock(p, Merged)
  \/ \E p \in One : OpenCreate(p)
  \/ \E p \in One : OpenWindow(p)
  \/ \E f \in SmallFiles : AgentCommits(Merged, f)
  \/ \E p \in One, squash \in BOOLEAN : MergeStart(p, Merged, squash, FALSE)
  \/ \E p \in Procs \ One : MergeStart(p, Merged, FALSE, TRUE)
  \/ \E p \in One : MergePreflight(p)
  \/ \E p \in One : MergeLocks(p)
  \/ \E p \in One : MergeGit(p)
  \/ \E p \in One : MergeCommit(p)
  \/ \E p \in One : MergeHasSession(p)
  \/ \E p \in One : MergeRelease(p)
  \/ \E p \in One : MergeRemove(p)
  \/ TrunkEdits
  \/ CheckoutOther
  \/ CheckoutTrunk
  \/ SessionStarts(ProjectSession)

SpecAbort == Init /\ [][NextAbort]_vars

\* q runs `merge --abort` in this step in a trunk worktree where no merge has
\* stopped or staged anything
AbortsNothing(q) ==
  /\ mrg'[q].cmd = "abort"
  /\ mrg'[q] # mrg[q]
  /\ repo.wt \in {"clean", "edited"}
  /\ repo.unmerged = {}
  /\ ~repo.mhead

\* C38: merge --abort without a merge in progress leaves the trunk worktree,
\* its head and its uncommitted changes as they were.
AbortOfNothingKeepsTrunk ==
  [][\A q \in Procs : AbortsNothing(q) => repo' = repo]_vars

\* the same in a trunk worktree without uncommitted changes
AbortOfNothingKeepsCleanTrunk ==
  [][\A q \in Procs :
       (AbortsNothing(q) /\ repo.wt = "clean") => repo' = repo]_vars

\* ------------------------------------------------------------ C39
\* C39: a blocked commit leaves the lock table as it was; an allowed one
\* adds a row with an empty session tag for the committer on every staged
\* path that had no row, and nothing else changes.
HookFrame ==
  [][\A p \in Procs, o \in Owners, staged \in Requests :
       HookEnds(p, o, staged) =>
         LET fresh == {f \in staged : \A r \in locks : r.file # f}
         IN IF proc'[p].outcome = "blocked"
            THEN locks' = locks
            ELSE /\ locks \subseteq locks'
                 /\ {r.file : r \in locks' \ locks} = fresh
                 /\ \A r \in locks' \ locks :
                      /\ <<r.agent, r.task>> = o
                      /\ r.tmux_session = EMPTY]_vars

\* an allowed commit has locked a path next to the row of another owner
HookFrameWitness ==
  \E p \in Procs :
    /\ proc[p].pc = "done" /\ proc[p].cmd = "hook"
    /\ proc[p].outcome = "allowed"
    /\ \E r, r2 \in locks :
         /\ r.tmux_session = EMPTY
         /\ <<r2.agent, r2.task>> # <<r.agent, r.task>>

\* ------------------------------------------------------------ C40
\* As for C23, with the agent committing only while no merge runs: another
\* owner opens its workspace with --lock at any time.
NextGrant ==
  \/ \E p \in One : OpenLock(p, Blocker)
  \/ \E p \in One : OpenNoLock(p, Merged)
  \/ \E p \in One : OpenCreate(p)
  \/ \E p \in One : OpenWindow(p)
  \/ \E p \in One : OpenUndo(p)
  \/ \E f \in SmallFiles :
       (\A p \in Procs : MergeFree(p)) /\ AgentCommits(Merged, f)
  \/ \E p \in One, squash \in BOOLEAN : MergeStart(p, Merged, squash, FALSE)
  \/ \E p \in One : MergePreflight(p)
  \/ \E p \in One : MergeLocks(p)
  \/ \E p \in One : MergeGit(p)
  \/ \E p \in One : MergeCommit(p)
  \/ \E p \in One : MergeHasSession(p)
  \/ \E p \in One : MergeRelease(p)
  \/ \E p \in One : MergeRemove(p)
  \/ SessionStarts(ProjectSession)

SpecGrant == Init /\ [][NextGrant]_vars

\* p's merge puts the changes of its branch on trunk in this step
MergeLands(p) ==
  /\ mrg[p].pc \in {"git", "commit"}
  /\ mrg'[p] # mrg[p]
  /\ repo'.head = repo.head + 1

\* C40: when a merge puts the changes of the branch on trunk, none of the
\* changed files has a live lock row of another (agent, task).
MergeLandsNoLockedFile ==
  [][\A p \in Procs : MergeLands(p) => ~MergeBlocked(p)]_vars

====
